---- MODULE Spec2Model ----
(***************************************************************************)
(* Model of htlib's VirtualTerminal (vt.go): the lifecycle flags, the      *)
(* primary event channel, the subscriber registry, the decode goroutine    *)
(* (readEvents), the exit-watch goroutine (waitForExit) and the public     *)
(* operations, with the child process and the channel readers as the       *)
(* environment.                                                            *)
(***************************************************************************)
EXTENDS Integers, Sequences, FiniteSets, TLC

\* ------------------------------------------------------------------ bounds
NumCallers == 2      \* goroutines of the calling program
MaxChans == 3        \* subscriber channels created over one behaviour
EventsCap == 1       \* capacity of vt.events (100 in New)
SubCap == 1          \* capacity of a subscriber channel (100 in Subscribe)
\* Spec: every operation
MaxCalls == 2        \* public calls begun over one behaviour
MaxLines == 1        \* protocol lines the child writes to its stdout
\* SpecLife: a child that writes nothing
MaxCallsLife == 3
\* SpecEvents: the event path
MaxCallsEvents == 3
MaxLinesEvents == 2
\* SpecFirst: the event path over two calls
MaxCallsFirst == 2
MaxLinesFirst == 2
\* SpecRegistry: the registry and the fan-out, without shutdown
MaxCallsRegistry == 4
MaxLinesRegistry == 2
\* SpecWfs: WaitForSnapshot with the event path
MaxCallsWfs == 2
MaxLinesWfs == 2
\* SpecDecode: the decode loop given any protocol line
MaxCallsDecode == 2
MaxLinesDecode == 2
\* SpecLock: the operations on vt.mu beside a fan-out in two steps
MaxCallsLock == 3
MaxLinesLock == 1
\* SpecHandles: the subscriber channels over their whole life
MaxCallsHandles == 3
MaxLinesHandles == 1
\* SpecShare: two WaitForSnapshot calls on one child
MaxCallsShare == 3
MaxLinesShare == 2
\* SpecFrame: the commands and the queries beside Start, Close and Subscribe
MaxCallsFrame == 3
MaxLinesFrame == 1
\* SpecExit: a child that exits on its own, with no call of Close
MaxCallsExit == 3
MaxLinesExit == 1
\* SpecClose: Close beside the commands, the goroutines and the child
MaxCallsClose == 3
MaxLinesClose == 2
\* SpecCancel: WaitForSnapshot and the decode loop when vt.ctx is cancelled
MaxCallsCancel == 2
MaxLinesCancel == 2
\* SpecCtx: the command methods and their callers' contexts
MaxCallsCtx == 2
\* SpecSize: Size() over the configurations
MaxCallsSize == 2
MaxSizeLen == 3       \* characters of a configured size string

Callers == 1..NumCallers
Chans == 1..MaxChans

\* -------------------------------------------------------------- data model
\* errors.go, and the wrapped errors built in vt.go
ErrNotStarted == "ErrNotStarted"
ErrAlreadyStarted == "ErrAlreadyStarted"
ErrClosed == "ErrClosed"
ErrInvalidEvent == "ErrInvalidEvent"
ErrSpawn == "ErrSpawn"          \* "failed to start ht process" / pipe errors
ErrWrite == "ErrWrite"          \* "failed to write command"
ErrStdout == "ErrStdout"        \* "error reading stdout"
ErrExited == "ErrExited"        \* "ht process exited"
ErrCtx == "ErrCtx"              \* ctx.Err() of the caller's context
ErrJSON == "ErrJSON"            \* json.Unmarshal failure
Nil == "nil"

\* The event type tags of types.go; parseEvent has no case for "mouse".
EventTypes == {"init", "output", "resize", "snapshot", "mouse"}

\* A protocol line: its type tag and whether envelope and payload unmarshal.
Line(t) == [type |-> t, wellformed |-> TRUE]

NoEvent == [id |-> 0, type |-> "none"]

\* parseEvent: the event built from line number n, or the error.
parseEvent(line, n) ==
    IF ~line.wellformed
    THEN [err |-> ErrJSON, event |-> NoEvent]
    ELSE IF line.type \in {"init", "output", "resize", "snapshot"}
         THEN [err |-> Nil, event |-> [id |-> n, type |-> line.type]]
         ELSE [err |-> ErrInvalidEvent, event |-> NoEvent]

CommandTypes == {"input", "sendKeys", "resize", "takeSnapshot"}

\* The public method that sends each command type.
MethodOf(t) ==
    CASE t = "input" -> "Input"
      [] t = "sendKeys" -> "SendKeys"
      [] t = "resize" -> "Resize"
      [] t = "takeSnapshot" -> "TakeSnapshot"

NoCall == [op |-> "none", ret |-> Nil, val |-> NoEvent]
NoResult == [ret |-> "pending", val |-> NoEvent]

VARIABLES
    started, closed,       \* vt.started, vt.closed
    err,                   \* vt.err
    cancelled,             \* vt.ctx is done
    wg,                    \* vt.wg counter
    stdin,                 \* vt.stdin: "nil", "open", "closed"
    proc,                  \* the child: "none", "running", "exited"
    exitErr,               \* the child's exit is abnormal
    stdoutClosed,          \* cmd.Wait has closed the read end of stdout
    spawned,               \* number of child processes created
    events,                \* buffer of vt.events
    eventsClosed,          \* vt.events is closed
    subscribers,           \* vt.subscribers, a sequence of channels
    chanBuf, chanClosed,   \* buffer and closed flag of each channel made
    nextChan,              \* number of channels made by Subscribe
    handles,               \* channels returned to the calling program
    readers,               \* callers holding vt.mu.RLock
    decPc, curEvent, lines,\* readEvents: position, event in hand, lines read
    exPc, waitErr,         \* waitForExit: position, result of cmd.Wait
    pc, wfsCh, ctxDone,    \* callers: position, eventChan, ctx is done
    wfsRes,                \* callers: what WaitForSnapshot is to return
    lastRet,               \* the call that returned last, and its result
    closeRets,             \* history: the values returned by Close
    callsLeft,             \* public calls the callers may still begin
    linesLeft,             \* lines the child may still write
    written,               \* command types written to the child's stdin
    panicked,              \* a send on / close of a closed channel happened
    decoded,               \* history: events decoded successfully
    primaryHist,           \* history: events sent on vt.events
    delivered,             \* history: events sent on each channel
    overflowed,            \* history: a send on the channel was skipped
    regAt,                 \* history: Len(primaryHist) at registration
    config                 \* vt.config: Size, Cols and Rows

vars == <<started, closed, err, cancelled, wg, stdin, proc, exitErr,
          stdoutClosed, spawned, events, eventsClosed, subscribers, chanBuf,
          chanClosed, nextChan, handles, readers, decPc, curEvent, lines,
          exPc, waitErr, pc, wfsCh, ctxDone, wfsRes, lastRet, closeRets,
          callsLeft, linesLeft, written, panicked,
          decoded, primaryHist, delivered, overflowed, regAt, config>>

\* groups used in UNCHANGED
flagVars == <<started, closed>>
procVars == <<proc, exitErr, stdoutClosed, spawned>>
primVars == <<events, eventsClosed>>
regVars == <<subscribers, chanBuf, chanClosed, nextChan, handles>>
decVars == <<decPc, curEvent, lines>>
exVars == <<exPc, waitErr>>
callerVars == <<pc, wfsCh, ctxDone, wfsRes>>
retVars == <<lastRet, closeRets>>
histVars == <<decoded, primaryHist, delivered, overflowed, regAt>>

\* The lifecycle state of section 3, from the two flags.
State ==
    IF closed THEN "Closed" ELSE IF started THEN "Running" ELSE "NotStarted"

\* A size string is a sequence of characters.
DefaultSize == <<"1", "2", "0", "x", "4", "0">>

\* Config{}: the fields of Config that Size() reads, at their zero values.
ZeroConfig == [Size |-> <<>>, Cols |-> 0, Rows |-> 0]

\* The default New gives to a configuration with no size at all.
withDefaults(cfg) ==
    IF cfg.Size = <<>> /\ cfg.Cols = 0 /\ cfg.Rows = 0
    THEN [cfg EXCEPT !.Size = DefaultSize]
    ELSE cfg

\* New(config)
NewVT(cfg) ==
    /\ config = withDefaults(cfg)
    /\ started = FALSE /\ closed = FALSE
    /\ err = Nil
    /\ cancelled = FALSE
    /\ wg = 0
    /\ stdin = "nil"
    /\ proc = "none" /\ exitErr = FALSE /\ stdoutClosed = FALSE
    /\ spawned = 0
    /\ events = <<>> /\ eventsClosed = FALSE
    /\ subscribers = <<>>
    /\ chanBuf = [ch \in Chans |-> <<>>]
    /\ chanClosed = [ch \in Chans |-> FALSE]
    /\ nextChan = 0
    /\ handles = {}
    /\ readers = {}
    /\ decPc = "idle" /\ curEvent = NoEvent /\ lines = 0
    /\ exPc = "idle" /\ waitErr = FALSE
    /\ pc = [c \in Callers |-> "idle"]
    /\ wfsRes = [c \in Callers |-> NoResult]
    /\ lastRet = NoCall
    /\ closeRets = {}
    /\ wfsCh = [c \in Callers |-> 0]
    /\ ctxDone = [c \in Callers |-> FALSE]
    /\ written = <<>>
    /\ panicked = FALSE
    /\ decoded = <<>> /\ primaryHist = <<>>
    /\ delivered = [ch \in Chans |-> <<>>]
    /\ overflowed = [ch \in Chans |-> FALSE]
    /\ regAt = [ch \in Chans |-> 0]

\* New(Config{})
New == NewVT(ZeroConfig)

Init == New /\ callsLeft = MaxCalls /\ linesLeft = MaxLines

InitLife == New /\ callsLeft = MaxCallsLife /\ linesLeft = 0

InitEvents == New /\ callsLeft = MaxCallsEvents /\ linesLeft = MaxLinesEvents

InitFirst == New /\ callsLeft = MaxCallsFirst /\ linesLeft = MaxLinesFirst

InitWfs == New /\ callsLeft = MaxCallsWfs /\ linesLeft = MaxLinesWfs

InitLock ==
    New /\ callsLeft = MaxCallsLock /\ linesLeft = MaxLinesLock

InitHandles ==
    New /\ callsLeft = MaxCallsHandles /\ linesLeft = MaxLinesHandles

InitShare ==
    New /\ callsLeft = MaxCallsShare /\ linesLeft = MaxLinesShare

InitFrame ==
    New /\ callsLeft = MaxCallsFrame /\ linesLeft = MaxLinesFrame

InitExit ==
    New /\ callsLeft = MaxCallsExit /\ linesLeft = MaxLinesExit

InitClose ==
    New /\ callsLeft = MaxCallsClose /\ linesLeft = MaxLinesClose

InitCancel ==
    New /\ callsLeft = MaxCallsCancel /\ linesLeft = MaxLinesCancel

InitCtx == New /\ callsLeft = MaxCallsCtx /\ linesLeft = 0

InitDecode ==
    New /\ callsLeft = MaxCallsDecode /\ linesLeft = MaxLinesDecode

\* The characters of the configured size strings: digits, the separator,
\* a letter and a sign.
SizeChars == {"0", "1", "x", "a", "-"}

\* The size strings of at most n characters.
RECURSIVE SizeStrings(_)
SizeStrings(n) ==
    IF n = 0 THEN {<<>>}
    ELSE LET shorter == SizeStrings(n - 1)
         IN shorter \cup {Append(s, ch) :
                             s \in {p \in shorter : Len(p) = n - 1},
                             ch \in SizeChars}

\* The values given to Config.Cols and Config.Rows.
ConfigInts == {-1, 0, 2}

\* The configurations passed to New.
Configs ==
    {[Size |-> s, Cols |-> a, Rows |-> b] :
        s \in SizeStrings(MaxSizeLen), a \in ConfigInts, b \in ConfigInts}

InitSize ==
    \E cfg \in Configs :
        NewVT(cfg) /\ callsLeft = MaxCallsSize /\ linesLeft = 0

InitRegistry ==
    New /\ callsLeft = MaxCallsRegistry /\ linesLeft = MaxLinesRegistry

\* vt.mu.Lock() can be taken: no caller holds the read side across a step.
CanLock == readers = {}

\* A caller begins a public call. Idle callers are interchangeable, so the
\* lowest idle one makes the call.
CanCall(c) ==
    /\ pc[c] = "idle"
    /\ callsLeft > 0
    /\ \A d \in Callers : d < c => pc[d] # "idle"

\* The call of caller c returns.
Return(c, op, ret, val) ==
    /\ lastRet' = [op |-> op, ret |-> ret, val |-> val]
    /\ closeRets' = IF op = "Close" THEN closeRets \cup {ret} ELSE closeRets
    /\ pc' = [pc EXCEPT ![c] = "idle"]

\* ------------------------------------------------------------------ Start
\* Start without its check of vt.started.
startCheckNoStarted == IF closed THEN ErrClosed ELSE Nil

\* Start without its check of vt.closed.
startCheckNoClosed == IF started THEN ErrAlreadyStarted ELSE Nil

\* The two checks at the head of Start.
startCheck ==
    IF started THEN ErrAlreadyStarted ELSE IF closed THEN ErrClosed ELSE Nil

\* A Start that sets vt.started and adds to vt.wg before cmd.Start().
StartFlagBeforeSpawn(c) ==
    /\ CanCall(c) /\ CanLock
    /\ callsLeft' = callsLeft - 1
    /\ IF startCheck # Nil THEN
            /\ Return(c, "Start", startCheck, NoEvent)
            /\ UNCHANGED <<started, stdin, proc, spawned, wg, decPc, exPc>>
       ELSE \/ /\ Return(c, "Start", ErrSpawn, NoEvent)
               /\ UNCHANGED <<started, stdin, proc, spawned, wg, decPc, exPc>>
            \/ /\ Return(c, "Start", ErrSpawn, NoEvent)
               /\ stdin' = "closed"
               /\ started' = TRUE
               /\ wg' = wg + 2
               /\ UNCHANGED <<proc, spawned, decPc, exPc>>
            \/ /\ Return(c, "Start", Nil, NoEvent)
               /\ stdin' = "open"
               /\ proc' = "running"
               /\ spawned' = spawned + 1
               /\ started' = TRUE
               /\ wg' = wg + 2
               /\ decPc' = "scan"
               /\ exPc' = "wait"
    /\ UNCHANGED <<closed, err, cancelled, exitErr, stdoutClosed, primVars,
                   regVars, readers, curEvent, lines, waitErr, wfsCh,
                   ctxDone, wfsRes, linesLeft, written, panicked, histVars,
                   config>>

\* A Start that launches the two goroutines without vt.wg.Add(2).
StartNoWgAdd(c) ==
    /\ CanCall(c) /\ CanLock
    /\ callsLeft' = callsLeft - 1
    /\ IF startCheck # Nil THEN
            /\ Return(c, "Start", startCheck, NoEvent)
            /\ UNCHANGED <<started, stdin, proc, spawned, wg, decPc, exPc>>
       ELSE \/ /\ Return(c, "Start", ErrSpawn, NoEvent)
               /\ UNCHANGED <<started, stdin, proc, spawned, wg, decPc, exPc>>
            \/ /\ Return(c, "Start", ErrSpawn, NoEvent)
               /\ stdin' = "closed"
               /\ UNCHANGED <<started, proc, spawned, wg, decPc, exPc>>
            \/ /\ Return(c, "Start", Nil, NoEvent)
               /\ stdin' = "open"
               /\ proc' = "running"
               /\ spawned' = spawned + 1
               /\ started' = TRUE
               /\ decPc' = "scan"
               /\ exPc' = "wait"
               /\ UNCHANGED wg
    /\ UNCHANGED <<closed, err, cancelled, exitErr, stdoutClosed, primVars,
                   regVars, readers, curEvent, lines, waitErr, wfsCh,
                   ctxDone, wfsRes, linesLeft, written, panicked, histVars,
                   config>>

Start(c) ==
    /\ CanCall(c) /\ CanLock
    /\ callsLeft' = callsLeft - 1
    /\ IF startCheck # Nil THEN
            /\ Return(c, "Start", startCheck, NoEvent)
            /\ UNCHANGED <<started, stdin, proc, spawned, wg, decPc, exPc>>
       ELSE \/ \* a pipe cannot be attached
               /\ Return(c, "Start", ErrSpawn, NoEvent)
               /\ UNCHANGED <<started, stdin, proc, spawned, wg, decPc, exPc>>
            \/ \* cmd.Start fails; the stdin pipe was created and is closed
               /\ Return(c, "Start", ErrSpawn, NoEvent)
               /\ stdin' = "closed"
               /\ UNCHANGED <<started, proc, spawned, wg, decPc, exPc>>
            \/ /\ Return(c, "Start", Nil, NoEvent)
               /\ stdin' = "open"
               /\ proc' = "running"
               /\ spawned' = spawned + 1
               /\ started' = TRUE
               /\ wg' = wg + 2
               /\ decPc' = "scan"
               /\ exPc' = "wait"
    /\ UNCHANGED <<closed, err, cancelled, exitErr, stdoutClosed, primVars,
                   regVars, readers, curEvent, lines, waitErr, wfsCh,
                   ctxDone, wfsRes, linesLeft, written, panicked, histVars,
                   config>>

\* ------------------------------------------------------------------ Close
\* Close without its check of vt.closed: every call shuts down again.
CloseBeginNoCheck(c) ==
    /\ CanCall(c) /\ CanLock
    /\ callsLeft' = callsLeft - 1
    /\ closed' = TRUE
    /\ pc' = [pc EXCEPT ![c] = "close_cancel"]
    /\ UNCHANGED <<started, err, cancelled, wg, stdin, procVars, primVars,
                   regVars, readers, decVars, exVars, wfsCh, ctxDone, wfsRes,
                   retVars, linesLeft, written, panicked, histVars, config>>

\* First critical section: the closed check and the flag.
CloseBegin(c) ==
    /\ CanCall(c) /\ CanLock
    /\ callsLeft' = callsLeft - 1
    /\ IF closed THEN
            /\ Return(c, "Close", Nil, NoEvent)
            /\ UNCHANGED closed
       ELSE /\ closed' = TRUE
            /\ pc' = [pc EXCEPT ![c] = "close_cancel"]
            /\ UNCHANGED retVars
    /\ UNCHANGED <<started, err, cancelled, wg, stdin, procVars, primVars,
                   regVars, readers, decVars, exVars, wfsCh, ctxDone, wfsRes,
                   linesLeft, written, panicked, histVars, config>>

\* Close is called: the caller arrives at vt.mu.Lock(), where it waits
\* while a sendCommand holds the read lock.
CloseEnter(c) ==
    /\ CanCall(c)
    /\ callsLeft' = callsLeft - 1
    /\ pc' = [pc EXCEPT ![c] = "close_lock"]
    /\ UNCHANGED <<flagVars, err, cancelled, wg, stdin, procVars, primVars,
                   regVars, readers, decVars, exVars, wfsCh, ctxDone, wfsRes,
                   retVars, linesLeft, written, panicked, histVars, config>>

\* vt.mu.Lock() is granted: the first critical section of Close.
CloseLocked(c) ==
    /\ pc[c] = "close_lock"
    /\ CanLock
    /\ IF closed THEN
            /\ Return(c, "Close", Nil, NoEvent)
            /\ UNCHANGED closed
       ELSE /\ closed' = TRUE
            /\ pc' = [pc EXCEPT ![c] = "close_cancel"]
            /\ UNCHANGED retVars
    /\ UNCHANGED <<started, err, cancelled, wg, stdin, procVars, primVars,
                   regVars, readers, decVars, exVars, wfsCh, ctxDone, wfsRes,
                   callsLeft, linesLeft, written, panicked, histVars, config>>

\* A Close that calls vt.cancel() only on an instance that was started.
CloseCancelIfStarted(c) ==
    /\ pc[c] = "close_cancel"
    /\ cancelled' = (cancelled \/ started)
    /\ pc' = [pc EXCEPT ![c] = "close_stdin"]
    /\ UNCHANGED <<flagVars, err, wg, stdin, procVars, primVars, regVars,
                   readers, decVars, exVars, wfsCh, ctxDone, wfsRes, retVars,
                   callsLeft, linesLeft, written, panicked, histVars, config>>

\* vt.cancel()
CloseCancel(c) ==
    /\ pc[c] = "close_cancel"
    /\ cancelled' = TRUE
    /\ pc' = [pc EXCEPT ![c] = "close_stdin"]
    /\ UNCHANGED <<flagVars, err, wg, stdin, procVars, primVars, regVars,
                   readers, decVars, exVars, wfsCh, ctxDone, wfsRes, retVars,
                   callsLeft, linesLeft, written, panicked, histVars, config>>

\* if vt.stdin != nil { vt.stdin.Close() }
CloseStdin(c) ==
    /\ pc[c] = "close_stdin"
    /\ stdin' = IF stdin = "nil" THEN "nil" ELSE "closed"
    /\ pc' = [pc EXCEPT ![c] = "close_wait"]
    /\ UNCHANGED <<flagVars, err, cancelled, wg, procVars, primVars, regVars,
                   readers, decVars, exVars, wfsCh, ctxDone, wfsRes, retVars,
                   callsLeft, linesLeft, written, panicked, histVars, config>>

\* Close without vt.wg.Wait()
CloseNoWait(c) ==
    /\ pc[c] = "close_wait"
    /\ pc' = [pc EXCEPT ![c] = "close_final"]
    /\ UNCHANGED <<flagVars, err, cancelled, wg, stdin, procVars, primVars,
                   regVars, readers, decVars, exVars, wfsCh, ctxDone, wfsRes,
                   retVars, callsLeft, linesLeft, written, panicked,
                   histVars, config>>

\* vt.wg.Wait()
CloseWait(c) ==
    /\ pc[c] = "close_wait"
    /\ wg = 0
    /\ pc' = [pc EXCEPT ![c] = "close_final"]
    /\ UNCHANGED <<flagVars, err, cancelled, wg, stdin, procVars, primVars,
                   regVars, readers, decVars, exVars, wfsCh, ctxDone, wfsRes,
                   retVars, callsLeft, linesLeft, written, panicked,
                   histVars, config>>

\* The channels of the registry, as a set.
Registered == {subscribers[i] : i \in 1..Len(subscribers)}

\* A Close that closes the registered channels and leaves them in the
\* registry.
CloseFinalKeepsRegistry(c) ==
    /\ pc[c] = "close_final"
    /\ CanLock
    /\ chanClosed' = [ch \in Chans |-> chanClosed[ch] \/ ch \in Registered]
    /\ panicked' = (panicked \/ \E ch \in Registered : chanClosed[ch])
    /\ Return(c, "Close", err, NoEvent)
    /\ UNCHANGED <<flagVars, err, cancelled, wg, stdin, procVars, primVars,
                   subscribers, chanBuf, nextChan, handles, readers, decVars,
                   exVars, wfsCh, ctxDone, wfsRes, callsLeft, linesLeft,
                   written, histVars, config>>

\* Second critical section: close every registered channel, clear the
\* registry; then return vt.err.
CloseFinal(c) ==
    /\ pc[c] = "close_final"
    /\ CanLock
    /\ chanClosed' = [ch \in Chans |-> chanClosed[ch] \/ ch \in Registered]
    /\ panicked' = (panicked \/ \E ch \in Registered : chanClosed[ch])
    /\ subscribers' = <<>>
    /\ Return(c, "Close", err, NoEvent)
    /\ UNCHANGED <<flagVars, err, cancelled, wg, stdin, procVars, primVars,
                   chanBuf, nextChan, handles, readers, decVars, exVars,
                   wfsCh, ctxDone, wfsRes, callsLeft, linesLeft, written,
                   histVars, config>>

\* ------------------------------------------------------------ sendCommand
\* sendCommand without its check of vt.started.
sendCommandCheckNoStarted == IF closed THEN ErrClosed ELSE Nil

\* Checks of sendCommand that also report ErrClosed once vt.ctx is done.
sendCommandCheckCtx ==
    IF ~started THEN ErrNotStarted
    ELSE IF closed \/ cancelled THEN ErrClosed ELSE Nil

\* The two checks of sendCommand, made under RLock.
sendCommandCheck ==
    IF ~started THEN ErrNotStarted ELSE IF closed THEN ErrClosed ELSE Nil

\* vt.stdin.Write(data) succeeds on an open pipe to a living child.
stdinWritable == stdin = "open" /\ proc = "running"

\* Input, SendKeys, Resize, TakeSnapshot: the checks; on success the caller
\* goes on to the write, holding the read lock.
SendBegin(c, t) ==
    /\ CanCall(c)
    /\ callsLeft' = callsLeft - 1
    /\ IF sendCommandCheck # Nil THEN
            /\ Return(c, MethodOf(t), sendCommandCheck, NoEvent)
            /\ UNCHANGED readers
       ELSE /\ pc' = [pc EXCEPT ![c] = "write_" \o t]
            /\ readers' = readers \cup {c}
            /\ UNCHANGED retVars
    /\ UNCHANGED <<flagVars, err, cancelled, wg, stdin, procVars, primVars,
                   regVars, decVars, exVars, wfsCh, ctxDone, wfsRes,
                   linesLeft, written, panicked, histVars, config>>

\* A write whose failure is also stored in vt.err.
SendWriteRecordsErr(c, t) ==
    /\ pc[c] = "write_" \o t
    /\ readers' = readers \ {c}
    /\ IF stdinWritable THEN
            /\ written' = Append(written, t)
            /\ Return(c, MethodOf(t), Nil, NoEvent)
            /\ UNCHANGED err
       ELSE /\ Return(c, MethodOf(t), ErrWrite, NoEvent)
            /\ err' = ErrWrite
            /\ UNCHANGED written
    /\ UNCHANGED <<flagVars, cancelled, wg, stdin, procVars, primVars,
                   regVars, decVars, exVars, wfsCh, ctxDone, wfsRes,
                   callsLeft, linesLeft, panicked, histVars, config>>

\* A write whose failure also cancels vt.ctx.
SendWriteCancels(c, t) ==
    /\ pc[c] = "write_" \o t
    /\ readers' = readers \ {c}
    /\ IF stdinWritable THEN
            /\ written' = Append(written, t)
            /\ Return(c, MethodOf(t), Nil, NoEvent)
            /\ UNCHANGED cancelled
       ELSE /\ Return(c, MethodOf(t), ErrWrite, NoEvent)
            /\ cancelled' = TRUE
            /\ UNCHANGED written
    /\ UNCHANGED <<flagVars, err, wg, stdin, procVars, primVars, regVars,
                   decVars, exVars, wfsCh, ctxDone, wfsRes, callsLeft,
                   linesLeft, panicked, histVars, config>>

\* The write, RUnlock and return.
SendWrite(c, t) ==
    /\ pc[c] = "write_" \o t
    /\ readers' = readers \ {c}
    /\ IF stdinWritable THEN
            /\ written' = Append(written, t)
            /\ Return(c, MethodOf(t), Nil, NoEvent)
       ELSE /\ Return(c, MethodOf(t), ErrWrite, NoEvent)
            /\ UNCHANGED written
    /\ UNCHANGED <<flagVars, err, cancelled, wg, stdin, procVars, primVars,
                   regVars, decVars, exVars, wfsCh, ctxDone, wfsRes,
                   callsLeft, linesLeft, panicked, histVars, config>>

\* ---------------------------------------------------- Subscribe/Unsubscribe
\* make(chan Event, 100) and append to the registry
register(ch) ==
    /\ nextChan' = ch
    /\ subscribers' = Append(subscribers, ch)
    /\ regAt' = [regAt EXCEPT ![ch] = Len(primaryHist)]

\* A Subscribe that appends to the registry without vt.mu.
SubscribeNoLock(c) ==
    /\ CanCall(c)
    /\ nextChan < MaxChans
    /\ callsLeft' = callsLeft - 1
    /\ register(nextChan + 1)
    /\ handles' = handles \cup {nextChan + 1}
    /\ Return(c, "Subscribe", Nil, NoEvent)
    /\ UNCHANGED <<flagVars, err, cancelled, wg, stdin, procVars, primVars,
                   chanBuf, chanClosed, readers, decVars, exVars, wfsCh,
                   ctxDone, wfsRes, linesLeft, written, panicked, decoded,
                   primaryHist, delivered, overflowed, config>>

\* A Subscribe that tests vt.closed: on a closed instance it returns a
\* channel that is closed already and registers nothing.
SubscribeClosedCheck(c) ==
    /\ CanCall(c) /\ CanLock
    /\ nextChan < MaxChans
    /\ callsLeft' = callsLeft - 1
    /\ IF closed THEN
            /\ nextChan' = nextChan + 1
            /\ chanClosed' = [chanClosed EXCEPT ![nextChan + 1] = TRUE]
            /\ UNCHANGED <<subscribers, regAt>>
       ELSE /\ register(nextChan + 1)
            /\ UNCHANGED chanClosed
    /\ handles' = handles \cup {nextChan + 1}
    /\ Return(c, "Subscribe", Nil, NoEvent)
    /\ UNCHANGED <<flagVars, err, cancelled, wg, stdin, procVars, primVars,
                   chanBuf, readers, decVars, exVars, wfsCh, ctxDone, wfsRes,
                   linesLeft, written, panicked, decoded, primaryHist,
                   delivered, overflowed, config>>

Subscribe(c) ==
    /\ CanCall(c) /\ CanLock
    /\ nextChan < MaxChans
    /\ callsLeft' = callsLeft - 1
    /\ register(nextChan + 1)
    /\ handles' = handles \cup {nextChan + 1}
    /\ Return(c, "Subscribe", Nil, NoEvent)
    /\ UNCHANGED <<flagVars, err, cancelled, wg, stdin, procVars, primVars,
                   chanBuf, chanClosed, readers, decVars, exVars, wfsCh,
                   ctxDone, wfsRes, linesLeft, written, panicked, decoded,
                   primaryHist, delivered, overflowed, config>>

\* The sequence without its first element equal to ch.
RECURSIVE Without(_, _)
Without(seq, ch) ==
    IF seq = <<>> THEN <<>>
    ELSE IF Head(seq) = ch THEN Tail(seq)
         ELSE <<Head(seq)>> \o Without(Tail(seq), ch)

\* An Unsubscribe that cuts the registry at the entry found:
\* vt.subscribers[:i] in place of the append of the two parts.
unregisterTruncate(ch) ==
    IF ch \in Registered THEN
        /\ subscribers' = SubSeq(subscribers, 1,
                (CHOOSE i \in 1..Len(subscribers) : subscribers[i] = ch) - 1)
        /\ chanClosed' = [chanClosed EXCEPT ![ch] = TRUE]
        /\ panicked' = (panicked \/ chanClosed[ch])
    ELSE UNCHANGED <<subscribers, chanClosed, panicked>>

\* Remove the first entry equal to ch and close it; nothing if absent.
unregister(ch) ==
    IF ch \in Registered THEN
        /\ subscribers' = Without(subscribers, ch)
        /\ chanClosed' = [chanClosed EXCEPT ![ch] = TRUE]
        /\ panicked' = (panicked \/ chanClosed[ch])
    ELSE UNCHANGED <<subscribers, chanClosed, panicked>>

Unsubscribe(c, ch) ==
    /\ CanCall(c) /\ CanLock
    /\ ch \in handles
    /\ callsLeft' = callsLeft - 1
    /\ unregister(ch)
    /\ Return(c, "Unsubscribe", Nil, NoEvent)
    /\ UNCHANGED <<flagVars, err, cancelled, wg, stdin, procVars, primVars,
                   chanBuf, nextChan, handles, readers, decVars, exVars,
                   wfsCh, ctxDone, wfsRes, linesLeft, written, histVars,
                   config>>

\* A channel the calling program made itself: no Subscribe returned it.
OwnChan == 0

\* Unsubscribe of a channel that Subscribe never returned.
UnsubscribeOther(c) ==
    /\ CanCall(c) /\ CanLock
    /\ callsLeft' = callsLeft - 1
    /\ unregister(OwnChan)
    /\ Return(c, "Unsubscribe", Nil, NoEvent)
    /\ UNCHANGED <<flagVars, err, cancelled, wg, stdin, procVars, primVars,
                   chanBuf, nextChan, handles, readers, decVars, exVars,
                   wfsCh, ctxDone, wfsRes, linesLeft, written, histVars,
                   config>>

\* ------------------------------------------------------------------- Size
\* strings.Split(s, "x")
RECURSIVE Split(_)
Split(s) ==
    IF \A i \in 1..Len(s) : s[i] # "x" THEN <<s>>
    ELSE LET i == CHOOSE k \in 1..Len(s) :
                      s[k] = "x" /\ \A j \in 1..(k - 1) : s[j] # "x"
         IN <<SubSeq(s, 1, i - 1)>> \o Split(SubSeq(s, i + 1, Len(s)))

DigitChars == {"0", "1", "2", "3", "4", "5", "6", "7", "8", "9"}

DigitValue(ch) ==
    CASE ch = "0" -> 0 [] ch = "1" -> 1 [] ch = "2" -> 2 [] ch = "3" -> 3
      [] ch = "4" -> 4 [] ch = "5" -> 5 [] ch = "6" -> 6 [] ch = "7" -> 7
      [] ch = "8" -> 8 [] ch = "9" -> 9

\* The number written by a sequence of digits.
RECURSIVE DigitsValue(_)
DigitsValue(ds) ==
    IF ds = <<>> THEN 0
    ELSE 10 * DigitsValue(SubSeq(ds, 1, Len(ds) - 1))
         + DigitValue(ds[Len(ds)])

\* The value strconv.Atoi returns, its error dropped: the number for an
\* optional sign and one or more digits, 0 for anything else. (The strings
\* here are shorter than the 19 digits at which Atoi reports a range error
\* and returns the nearest int.)
Atoi(s) ==
    LET signed == s # <<>> /\ s[1] \in {"+", "-"}
        digits == IF signed THEN Tail(s) ELSE s
    IN IF digits = <<>> \/ \E i \in 1..Len(digits) : digits[i] \notin DigitChars
       THEN 0
       ELSE IF signed /\ s[1] = "-" THEN 0 - DigitsValue(digits)
            ELSE DigitsValue(digits)

\* A Size that gives (0, 0) unless both halves of the string are numbers.
SizeAllOrNothing(cfg) ==
    IF cfg.Cols > 0 /\ cfg.Rows > 0
    THEN [cols |-> cfg.Cols, rows |-> cfg.Rows]
    ELSE LET parts == Split(cfg.Size)
         IN IF Len(parts) = 2 /\ Atoi(parts[1]) # 0 /\ Atoi(parts[2]) # 0
            THEN [cols |-> Atoi(parts[1]), rows |-> Atoi(parts[2])]
            ELSE [cols |-> 0, rows |-> 0]

\* The pair Size() returns for a configuration.
Size(cfg) ==
    IF cfg.Cols > 0 /\ cfg.Rows > 0
    THEN [cols |-> cfg.Cols, rows |-> cfg.Rows]
    ELSE LET parts == Split(cfg.Size)
         IN IF Len(parts) = 2
            THEN [cols |-> Atoi(parts[1]), rows |-> Atoi(parts[2])]
            ELSE [cols |-> 0, rows |-> 0]

\* vt.Size(): takes no lock and cannot fail.
SizeCall(c) ==
    /\ CanCall(c)
    /\ callsLeft' = callsLeft - 1
    /\ Return(c, "Size", Nil, Size(config))
    /\ UNCHANGED <<flagVars, err, cancelled, wg, stdin, procVars, primVars,
                   regVars, readers, decVars, exVars, wfsCh, ctxDone, wfsRes,
                   linesLeft, written, panicked, histVars, config>>

\* ------------------------------------------------------------ Events, Err
\* vt.Events(): returns vt.events; takes no lock and cannot fail.
EventsCall(c) ==
    /\ CanCall(c)
    /\ callsLeft' = callsLeft - 1
    /\ Return(c, "Events", Nil, NoEvent)
    /\ UNCHANGED <<flagVars, err, cancelled, wg, stdin, procVars, primVars,
                   regVars, readers, decVars, exVars, wfsCh, ctxDone, wfsRes,
                   linesLeft, written, panicked, histVars, config>>

\* vt.Err(): reads vt.err under the read lock, which is free whenever no
\* step is inside a Lock section, and returns it.
ErrCall(c) ==
    /\ CanCall(c)
    /\ callsLeft' = callsLeft - 1
    /\ Return(c, "Err", err, NoEvent)
    /\ UNCHANGED <<flagVars, err, cancelled, wg, stdin, procVars, primVars,
                   regVars, readers, decVars, exVars, wfsCh, ctxDone, wfsRes,
                   linesLeft, written, panicked, histVars, config>>
\* -------------------------------------------------------- WaitForSnapshot
\* eventChan := vt.Subscribe(); the caller's context may already be done.
WfsSubscribe(c) ==
    /\ CanCall(c) /\ CanLock
    /\ nextChan < MaxChans
    /\ callsLeft' = callsLeft - 1
    /\ register(nextChan + 1)
    /\ wfsCh' = [wfsCh EXCEPT ![c] = nextChan + 1]
    /\ \E b \in BOOLEAN : ctxDone' = [ctxDone EXCEPT ![c] = b]
    /\ pc' = [pc EXCEPT ![c] = "wfs_send"]
    /\ UNCHANGED <<flagVars, err, cancelled, wg, stdin, procVars, primVars,
                   chanBuf, chanClosed, handles, readers, decVars, exVars,
                   wfsRes, retVars, linesLeft, written, panicked, decoded,
                   primaryHist, delivered, overflowed, config>>

\* vt.TakeSnapshot(ctx): the checks of sendCommand
WfsSend(c) ==
    /\ pc[c] = "wfs_send"
    /\ IF sendCommandCheck # Nil THEN
            /\ wfsRes' = [wfsRes EXCEPT ![c] =
                            [ret |-> sendCommandCheck, val |-> NoEvent]]
            /\ pc' = [pc EXCEPT ![c] = "wfs_unsub"]
            /\ UNCHANGED readers
       ELSE /\ pc' = [pc EXCEPT ![c] = "wfs_write"]
            /\ readers' = readers \cup {c}
            /\ UNCHANGED wfsRes
    /\ UNCHANGED <<flagVars, err, cancelled, wg, stdin, procVars, primVars,
                   regVars, decVars, exVars, wfsCh, ctxDone, retVars,
                   callsLeft, linesLeft, written, panicked, histVars, config>>

\* A WaitForSnapshot that goes on to its wait loop whether or not the
\* command was written.
WfsWriteThenWait(c) ==
    /\ pc[c] = "wfs_write"
    /\ readers' = readers \ {c}
    /\ written' = IF stdinWritable THEN Append(written, "takeSnapshot")
                  ELSE written
    /\ pc' = [pc EXCEPT ![c] = "wfs_loop"]
    /\ UNCHANGED wfsRes
    /\ UNCHANGED <<flagVars, err, cancelled, wg, stdin, procVars, primVars,
                   regVars, decVars, exVars, wfsCh, ctxDone, retVars,
                   callsLeft, linesLeft, panicked, histVars, config>>

\* vt.TakeSnapshot(ctx): the write of sendCommand
WfsWrite(c) ==
    /\ pc[c] = "wfs_write"
    /\ readers' = readers \ {c}
    /\ IF stdinWritable THEN
            /\ written' = Append(written, "takeSnapshot")
            /\ pc' = [pc EXCEPT ![c] = "wfs_loop"]
            /\ UNCHANGED wfsRes
       ELSE /\ wfsRes' = [wfsRes EXCEPT ![c] =
                            [ret |-> ErrWrite, val |-> NoEvent]]
            /\ pc' = [pc EXCEPT ![c] = "wfs_unsub"]
            /\ UNCHANGED written
    /\ UNCHANGED <<flagVars, err, cancelled, wg, stdin, procVars, primVars,
                   regVars, decVars, exVars, wfsCh, ctxDone, retVars,
                   callsLeft, linesLeft, panicked, histVars, config>>

\* A wait loop that returns whatever event it reads first.
WfsRecvAny(c) ==
    /\ pc[c] = "wfs_loop"
    /\ chanBuf[wfsCh[c]] # <<>>
    /\ chanBuf' = [chanBuf EXCEPT ![wfsCh[c]] = Tail(@)]
    /\ wfsRes' = [wfsRes EXCEPT ![c] =
                    [ret |-> Nil, val |-> Head(chanBuf[wfsCh[c]])]]
    /\ pc' = [pc EXCEPT ![c] = "wfs_unsub"]
    /\ UNCHANGED <<flagVars, err, cancelled, wg, stdin, procVars, primVars,
                   subscribers, chanClosed, nextChan, handles, readers,
                   decVars, exVars, wfsCh, ctxDone, retVars, callsLeft,
                   linesLeft, written, panicked, histVars, config>>

\* A wait loop that reads vt.events in place of the call's own channel.
WfsRecvPrimary(c) ==
    /\ pc[c] = "wfs_loop"
    /\ events # <<>>
    /\ events' = Tail(events)
    /\ IF Head(events).type = "snapshot" THEN
            /\ wfsRes' = [wfsRes EXCEPT ![c] =
                            [ret |-> Nil, val |-> Head(events)]]
            /\ pc' = [pc EXCEPT ![c] = "wfs_unsub"]
       ELSE UNCHANGED <<wfsRes, pc>>
    /\ UNCHANGED <<flagVars, err, cancelled, wg, stdin, procVars,
                   eventsClosed, regVars, readers, decVars, exVars, wfsCh,
                   ctxDone, retVars, callsLeft, linesLeft, written, panicked,
                   histVars, config>>

\* case event := <-eventChan: a snapshot is returned, another event skipped
WfsRecv(c) ==
    /\ pc[c] = "wfs_loop"
    /\ chanBuf[wfsCh[c]] # <<>>
    /\ chanBuf' = [chanBuf EXCEPT ![wfsCh[c]] = Tail(@)]
    /\ IF Head(chanBuf[wfsCh[c]]).type = "snapshot" THEN
            /\ wfsRes' = [wfsRes EXCEPT ![c] =
                            [ret |-> Nil, val |-> Head(chanBuf[wfsCh[c]])]]
            /\ pc' = [pc EXCEPT ![c] = "wfs_unsub"]
       ELSE UNCHANGED <<wfsRes, pc>>
    /\ UNCHANGED <<flagVars, err, cancelled, wg, stdin, procVars, primVars,
                   subscribers, chanClosed, nextChan, handles, readers,
                   decVars, exVars, wfsCh, ctxDone, retVars, callsLeft,
                   linesLeft, written, panicked, histVars, config>>

\* case <-ctx.Done()
WfsCtxDone(c) ==
    /\ pc[c] = "wfs_loop"
    /\ ctxDone[c]
    /\ wfsRes' = [wfsRes EXCEPT ![c] = [ret |-> ErrCtx, val |-> NoEvent]]
    /\ pc' = [pc EXCEPT ![c] = "wfs_unsub"]
    /\ UNCHANGED <<flagVars, err, cancelled, wg, stdin, procVars, primVars,
                   regVars, readers, decVars, exVars, wfsCh, ctxDone,
                   retVars, callsLeft, linesLeft, written, panicked,
                   histVars, config>>

\* A scope branch of the wait loop that returns the caller's ctx.Err().
WfsVtDoneCtxErr(c) ==
    /\ pc[c] = "wfs_loop"
    /\ cancelled
    /\ wfsRes' = [wfsRes EXCEPT ![c] = [ret |-> ErrCtx, val |-> NoEvent]]
    /\ pc' = [pc EXCEPT ![c] = "wfs_unsub"]
    /\ UNCHANGED <<flagVars, err, cancelled, wg, stdin, procVars, primVars,
                   regVars, readers, decVars, exVars, wfsCh, ctxDone,
                   retVars, callsLeft, linesLeft, written, panicked,
                   histVars, config>>

\* A wait loop that watches its caller's context only: it leaves on
\* vt.ctx.Done() when the caller's context is done as well.
WfsVtDoneWithCtx(c) ==
    /\ pc[c] = "wfs_loop"
    /\ cancelled /\ ctxDone[c]
    /\ wfsRes' = [wfsRes EXCEPT ![c] = [ret |-> ErrClosed, val |-> NoEvent]]
    /\ pc' = [pc EXCEPT ![c] = "wfs_unsub"]
    /\ UNCHANGED <<flagVars, err, cancelled, wg, stdin, procVars, primVars,
                   regVars, readers, decVars, exVars, wfsCh, ctxDone,
                   retVars, callsLeft, linesLeft, written, panicked,
                   histVars, config>>

\* case <-vt.ctx.Done()
WfsVtDone(c) ==
    /\ pc[c] = "wfs_loop"
    /\ cancelled
    /\ wfsRes' = [wfsRes EXCEPT ![c] = [ret |-> ErrClosed, val |-> NoEvent]]
    /\ pc' = [pc EXCEPT ![c] = "wfs_unsub"]
    /\ UNCHANGED <<flagVars, err, cancelled, wg, stdin, procVars, primVars,
                   regVars, readers, decVars, exVars, wfsCh, ctxDone,
                   retVars, callsLeft, linesLeft, written, panicked,
                   histVars, config>>

\* A return of WaitForSnapshot with no deferred Unsubscribe.
WfsReturnOnly(c) ==
    /\ pc[c] = "wfs_unsub"
    /\ CanLock
    /\ Return(c, "WaitForSnapshot", wfsRes[c].ret, wfsRes[c].val)
    /\ wfsCh' = [wfsCh EXCEPT ![c] = 0]
    /\ ctxDone' = [ctxDone EXCEPT ![c] = FALSE]
    /\ wfsRes' = [wfsRes EXCEPT ![c] = NoResult]
    /\ UNCHANGED <<flagVars, err, cancelled, wg, stdin, procVars, primVars,
                   regVars, readers, decVars, exVars, callsLeft, linesLeft,
                   written, panicked, histVars, config>>

\* defer vt.Unsubscribe(eventChan), and the return
WfsUnsubscribe(c) ==
    /\ pc[c] = "wfs_unsub"
    /\ CanLock
    /\ unregister(wfsCh[c])
    /\ Return(c, "WaitForSnapshot", wfsRes[c].ret, wfsRes[c].val)
    /\ wfsCh' = [wfsCh EXCEPT ![c] = 0]
    /\ ctxDone' = [ctxDone EXCEPT ![c] = FALSE]
    /\ wfsRes' = [wfsRes EXCEPT ![c] = NoResult]
    /\ UNCHANGED <<flagVars, err, cancelled, wg, stdin, procVars, primVars,
                   chanBuf, nextChan, handles, readers, decVars, exVars,
                   callsLeft, linesLeft, written, histVars, config>>

\* The caller's context is cancelled or times out during the call.
CtxCancel(c) ==
    /\ pc[c] \in {"wfs_send", "wfs_write", "wfs_loop"}
    /\ ~ctxDone[c]
    /\ ctxDone' = [ctxDone EXCEPT ![c] = TRUE]
    /\ UNCHANGED <<flagVars, err, cancelled, wg, stdin, procVars, primVars,
                   regVars, readers, decVars, exVars, pc, wfsCh, wfsRes,
                   retVars, callsLeft, linesLeft, written, panicked,
                   histVars, config>>

\* The context a caller passes to Input, SendKeys, Resize or TakeSnapshot
\* is cancelled or times out, before the call or during its write.
CtxCancelCommand(c) ==
    /\ pc[c] \in {"idle"} \cup {"write_" \o t : t \in CommandTypes}
    /\ ~ctxDone[c]
    /\ ctxDone' = [ctxDone EXCEPT ![c] = TRUE]
    /\ UNCHANGED <<flagVars, err, cancelled, wg, stdin, procVars, primVars,
                   regVars, readers, decVars, exVars, pc, wfsCh, wfsRes,
                   retVars, callsLeft, linesLeft, written, panicked,
                   histVars, config>>

\* ------------------------------------------------------------------ child
\* takeSnapshot commands the child has read and not answered yet.
SnapshotsOwed ==
    Cardinality({i \in 1..Len(written) : written[i] = "takeSnapshot"})
    - Cardinality({i \in 1..Len(decoded) : decoded[i].type = "snapshot"})

\* The lines the child (ht --subscribe init,output,resize,snapshot) may
\* write next: its init line first; then output lines, a snapshot line for
\* a takeSnapshot it has read, and lines of a type parseEvent does not know.
StdoutLines ==
    IF lines = 0 THEN {Line("init")}
    ELSE {Line("output"), Line("mouse")}
         \cup (IF SnapshotsOwed > 0 THEN {Line("snapshot")} ELSE {})

\* Any line the decode loop can be given: every type tag of types.go and a
\* tag that is none of them, each in a line that unmarshals and in a line
\* whose envelope or payload does not.
ProtocolLines ==
    {[type |-> t, wellformed |-> w] :
        t \in EventTypes \cup {"bogus"}, w \in BOOLEAN}

\* ------------------------------------------------------------- readEvents
\* A decode loop that stops at the first line that does not parse.
DecodeLineFatal(line) ==
    /\ decPc = "scan"
    /\ proc = "running" /\ linesLeft > 0
    /\ lines' = lines + 1
    /\ linesLeft' = linesLeft - 1
    /\ LET r == parseEvent(line, lines + 1) IN
        IF r.err # Nil THEN /\ decPc' = "return"
                            /\ UNCHANGED <<curEvent, decoded>>
        ELSE /\ curEvent' = r.event
             /\ decoded' = Append(decoded, r.event)
             /\ decPc' = "publish"
    /\ UNCHANGED <<flagVars, err, cancelled, wg, stdin, procVars, primVars,
                   regVars, readers, exVars, callerVars, retVars, callsLeft,
                   written, panicked, primaryHist, delivered, overflowed,
                   regAt, config>>

\* scanner.Scan() returns a line, and parseEvent: an event goes on to the
\* publish, a line that does not parse is skipped.
DecodeLine(line) ==
    /\ decPc = "scan"
    /\ proc = "running" /\ linesLeft > 0
    /\ lines' = lines + 1
    /\ linesLeft' = linesLeft - 1
    /\ LET r == parseEvent(line, lines + 1) IN
        IF r.err # Nil THEN UNCHANGED <<decPc, curEvent, decoded>>
        ELSE /\ curEvent' = r.event
             /\ decoded' = Append(decoded, r.event)
             /\ decPc' = "publish"
    /\ UNCHANGED <<flagVars, err, cancelled, wg, stdin, procVars, primVars,
                   regVars, readers, exVars, callerVars, retVars, callsLeft,
                   written, panicked, primaryHist, delivered, overflowed,
                   regAt, config>>

\* scanner.Scan() returns false at the end of the child's output;
\* scanner.Err() is nil.
DecodeEOF ==
    /\ decPc = "scan"
    /\ proc = "exited" /\ ~stdoutClosed
    /\ decPc' = "return"
    /\ UNCHANGED <<flagVars, err, cancelled, wg, stdin, procVars, primVars,
                   regVars, readers, curEvent, lines, exVars, callerVars,
                   retVars, callsLeft, linesLeft, written, panicked,
                   histVars, config>>

\* scanner.Scan() returns false on a read of the pipe that cmd.Wait has
\* closed; scanner.Err() is the read error.
DecodeReadErr ==
    /\ decPc = "scan"
    /\ stdoutClosed
    /\ decPc' = "seterr"
    /\ UNCHANGED <<flagVars, err, cancelled, wg, stdin, procVars, primVars,
                   regVars, readers, curEvent, lines, exVars, callerVars,
                   retVars, callsLeft, linesLeft, written, panicked,
                   histVars, config>>

\* scanner.Scan() returns false on a line over the scanner's limit;
\* scanner.Err() is bufio.ErrTooLong.
DecodeTooLong ==
    /\ decPc = "scan"
    /\ proc = "running" /\ linesLeft > 0
    /\ lines' = lines + 1
    /\ linesLeft' = linesLeft - 1
    /\ decPc' = "seterr"
    /\ UNCHANGED <<flagVars, err, cancelled, wg, stdin, procVars, primVars,
                   regVars, readers, curEvent, exVars, callerVars, retVars,
                   callsLeft, written, panicked, histVars, config>>

\* A publish that does not wait: with vt.events full it skips the send and
\* goes on to the subscribers.
DecodePublishOrSkip ==
    /\ decPc = "publish"
    /\ IF Len(events) < EventsCap
       THEN /\ events' = Append(events, curEvent)
            /\ primaryHist' = Append(primaryHist, curEvent)
       ELSE UNCHANGED <<events, primaryHist>>
    /\ decPc' = "fanout"
    /\ UNCHANGED <<flagVars, err, cancelled, wg, stdin, procVars,
                   eventsClosed, regVars, readers, curEvent, lines, exVars,
                   callerVars, retVars, callsLeft, linesLeft, written,
                   panicked, decoded, delivered, overflowed, regAt, config>>

\* select: case vt.events <- event
DecodePublish ==
    /\ decPc = "publish"
    /\ Len(events) < EventsCap
    /\ events' = Append(events, curEvent)
    /\ primaryHist' = Append(primaryHist, curEvent)
    /\ decPc' = "fanout"
    /\ UNCHANGED <<flagVars, err, cancelled, wg, stdin, procVars,
                   eventsClosed, regVars, readers, curEvent, lines, exVars,
                   callerVars, retVars, callsLeft, linesLeft, written,
                   panicked, decoded, delivered, overflowed, regAt, config>>

\* The select without the return of its ctx.Done() case: the event goes
\* on to the subscribers.
DecodeAbortNoReturn ==
    /\ decPc = "publish"
    /\ cancelled
    /\ decPc' = "fanout"
    /\ UNCHANGED <<flagVars, err, cancelled, wg, stdin, procVars, primVars,
                   regVars, readers, curEvent, lines, exVars, callerVars,
                   retVars, callsLeft, linesLeft, written, panicked,
                   histVars, config>>

\* select: case <-vt.ctx.Done(): return
DecodeAbort ==
    /\ decPc = "publish"
    /\ cancelled
    /\ decPc' = "return"
    /\ curEvent' = NoEvent
    /\ UNCHANGED <<flagVars, err, cancelled, wg, stdin, procVars, primVars,
                   regVars, readers, lines, exVars, callerVars, retVars,
                   callsLeft, linesLeft, written, panicked, histVars, config>>

\* The non-blocking send to channel ch finds room.
HasRoom(ch) == Len(chanBuf[ch]) < SubCap

\* A fan-out loop that stops after its first channel.
ReceiversFirstOnly ==
    {ch \in Registered : ~chanClosed[ch] /\ HasRoom(ch) /\ ch = subscribers[1]}

\* A fan-out loop that ends at the first channel it finds full.
ReceiversStopAtFull ==
    {subscribers[i] : i \in {j \in 1..Len(subscribers) :
        \A k \in 1..j : ~chanClosed[subscribers[k]] /\ HasRoom(subscribers[k])}}

\* The channels the fan-out of one event sends it on.
Receivers == {ch \in Registered : ~chanClosed[ch] /\ HasRoom(ch)}

\* A fan-out after which the loop sends the same event again instead of
\* reading the next line.
DecodeFanoutRepeat ==
    /\ decPc = "fanout"
    /\ chanBuf' = [ch \in Chans |->
                     IF ch \in Receivers THEN Append(chanBuf[ch], curEvent)
                     ELSE chanBuf[ch]]
    /\ delivered' = [ch \in Chans |->
                     IF ch \in Receivers THEN Append(delivered[ch], curEvent)
                     ELSE delivered[ch]]
    /\ overflowed' = [ch \in Chans |->
                     overflowed[ch] \/ (ch \in Registered /\ ~HasRoom(ch))]
    /\ panicked' = (panicked \/ \E ch \in Registered : chanClosed[ch])
    /\ decPc' = "publish"
    /\ UNCHANGED <<flagVars, err, cancelled, wg, stdin, procVars, primVars,
                   subscribers, chanClosed, nextChan, handles, readers,
                   curEvent, lines, exVars, callerVars, retVars, callsLeft,
                   linesLeft, written, decoded, primaryHist, regAt, config>>

\* Under RLock: the non-blocking send to every channel of the registry.
DecodeFanout ==
    /\ decPc = "fanout"
    /\ chanBuf' = [ch \in Chans |->
                     IF ch \in Receivers THEN Append(chanBuf[ch], curEvent)
                     ELSE chanBuf[ch]]
    /\ delivered' = [ch \in Chans |->
                     IF ch \in Receivers THEN Append(delivered[ch], curEvent)
                     ELSE delivered[ch]]
    /\ overflowed' = [ch \in Chans |->
                     overflowed[ch] \/ (ch \in Registered /\ ~HasRoom(ch))]
    /\ panicked' = (panicked \/ \E ch \in Registered : chanClosed[ch])
    /\ curEvent' = NoEvent
    /\ decPc' = "scan"
    /\ UNCHANGED <<flagVars, err, cancelled, wg, stdin, procVars, primVars,
                   subscribers, chanClosed, nextChan, handles, readers,
                   lines, exVars, callerVars, retVars, callsLeft, linesLeft,
                   written, decoded, primaryHist, regAt, config>>

\* The fan-out in its two steps. readEvents holds the read side of vt.mu
\* under this name in readers.
DecodeTask == 0

\* vt.mu.RLock() before the loop over vt.subscribers
FanoutRLock ==
    /\ decPc = "fanout"
    /\ readers' = readers \cup {DecodeTask}
    /\ decPc' = "fanout_locked"
    /\ UNCHANGED <<flagVars, err, cancelled, wg, stdin, procVars, primVars,
                   regVars, curEvent, lines, exVars, callerVars, retVars,
                   callsLeft, linesLeft, written, panicked, histVars, config>>

\* The loop over vt.subscribers, its non-blocking sends, and vt.mu.RUnlock()
FanoutSend ==
    /\ decPc = "fanout_locked"
    /\ chanBuf' = [ch \in Chans |->
                     IF ch \in Receivers THEN Append(chanBuf[ch], curEvent)
                     ELSE chanBuf[ch]]
    /\ delivered' = [ch \in Chans |->
                     IF ch \in Receivers THEN Append(delivered[ch], curEvent)
                     ELSE delivered[ch]]
    /\ overflowed' = [ch \in Chans |->
                     overflowed[ch] \/ (ch \in Registered /\ ~HasRoom(ch))]
    /\ panicked' = (panicked \/ \E ch \in Registered : chanClosed[ch])
    /\ curEvent' = NoEvent
    /\ readers' = readers \ {DecodeTask}
    /\ decPc' = "scan"
    /\ UNCHANGED <<flagVars, err, cancelled, wg, stdin, procVars, primVars,
                   subscribers, chanClosed, nextChan, handles, lines, exVars,
                   callerVars, retVars, callsLeft, linesLeft, written,
                   decoded, primaryHist, regAt, config>>

\* The value readEvents leaves in vt.err after a read error.
readError(old) == ErrStdout

\* if err := scanner.Err(); err != nil { vt.err = ... }
DecodeSetErr ==
    /\ decPc = "seterr"
    /\ CanLock
    /\ err' = readError(err)
    /\ decPc' = "return"
    /\ UNCHANGED <<flagVars, cancelled, wg, stdin, procVars, primVars,
                   regVars, readers, curEvent, lines, exVars, callerVars,
                   retVars, callsLeft, linesLeft, written, panicked,
                   histVars, config>>

\* A readEvents that ends without its deferred close(vt.events).
DecodeReturnNoClose ==
    /\ decPc = "return"
    /\ wg' = wg - 1
    /\ decPc' = "done"
    /\ UNCHANGED <<flagVars, err, cancelled, stdin, procVars, primVars,
                   regVars, readers, curEvent, lines, exVars, callerVars,
                   retVars, callsLeft, linesLeft, written, panicked,
                   histVars, config>>

\* The deferred calls, in their order: close(vt.events), vt.wg.Done()
DecodeReturn ==
    /\ decPc = "return"
    /\ eventsClosed' = TRUE
    /\ panicked' = (panicked \/ eventsClosed)
    /\ wg' = wg - 1
    /\ decPc' = "done"
    /\ UNCHANGED <<flagVars, err, cancelled, stdin, procVars, events,
                   regVars, readers, curEvent, lines, exVars, callerVars,
                   retVars, callsLeft, linesLeft, written, histVars, config>>

\* ------------------------------------------------------------ waitForExit
\* vt.cmd.Wait() returns once the child has exited; it closes the read end
\* of the stdout pipe.
ExitWait ==
    /\ exPc = "wait"
    /\ proc = "exited"
    /\ waitErr' = exitErr
    /\ stdoutClosed' = TRUE
    /\ exPc' = "capture"
    /\ UNCHANGED <<flagVars, err, cancelled, wg, stdin, proc, exitErr,
                   spawned, primVars, regVars, readers, decVars, callerVars,
                   retVars, callsLeft, linesLeft, written, panicked,
                   histVars, config>>

\* A waitForExit that records the exit error over an error already there.
exitErrorOverwrite(old, failed) == IF failed THEN ErrExited ELSE old

\* The value waitForExit leaves in vt.err, given the one already there.
exitError(old, failed) == IF failed /\ old = Nil THEN ErrExited ELSE old

ExitCapture ==
    /\ exPc = "capture"
    /\ CanLock
    /\ err' = exitError(err, waitErr)
    /\ exPc' = "cancel"
    /\ UNCHANGED <<flagVars, cancelled, wg, stdin, procVars, primVars,
                   regVars, readers, decVars, waitErr, callerVars, retVars,
                   callsLeft, linesLeft, written, panicked, histVars, config>>

\* vt.cancel(), then the deferred vt.wg.Done()
ExitCancel ==
    /\ exPc = "cancel"
    /\ cancelled' = TRUE
    /\ wg' = wg - 1
    /\ exPc' = "done"
    /\ UNCHANGED <<flagVars, err, stdin, procVars, primVars, regVars,
                   readers, decVars, waitErr, callerVars, retVars, callsLeft,
                   linesLeft, written, panicked, histVars, config>>

\* ------------------------------------------------------------ environment
\* The child exits, normally or not: on its own, after its stdin was
\* closed, or killed once vt.ctx is done (exec.CommandContext).
ChildExit ==
    /\ proc = "running"
    /\ proc' = "exited"
    /\ \E b \in BOOLEAN : exitErr' = b
    /\ UNCHANGED <<flagVars, err, cancelled, wg, stdin, stdoutClosed,
                   spawned, primVars, regVars, readers, decVars, exVars,
                   callerVars, retVars, callsLeft, linesLeft, written,
                   panicked, histVars, config>>

\* A reader of Events() receives an event.
RecvEvents ==
    /\ events # <<>>
    /\ events' = Tail(events)
    /\ UNCHANGED <<flagVars, err, cancelled, wg, stdin, procVars,
                   eventsClosed, regVars, readers, decVars, exVars,
                   callerVars, retVars, callsLeft, linesLeft, written,
                   panicked, histVars, config>>

\* A reader of a channel returned by Subscribe receives an event.
RecvSub(ch) ==
    /\ ch \in handles
    /\ chanBuf[ch] # <<>>
    /\ chanBuf' = [chanBuf EXCEPT ![ch] = Tail(@)]
    /\ UNCHANGED <<flagVars, err, cancelled, wg, stdin, procVars, primVars,
                   subscribers, chanClosed, nextChan, handles, readers,
                   decVars, exVars, callerVars, retVars, callsLeft,
                   linesLeft, written, panicked, histVars, config>>


Next ==
    \/ \E c \in Callers : Start(c)
    \/ \E c \in Callers : CloseBegin(c)
    \/ \E c \in Callers : CloseCancel(c)
    \/ \E c \in Callers : CloseStdin(c)
    \/ \E c \in Callers : CloseWait(c)
    \/ \E c \in Callers : CloseFinal(c)
    \/ \E c \in Callers, t \in CommandTypes : SendBegin(c, t)
    \/ \E c \in Callers, t \in CommandTypes : SendWrite(c, t)
    \/ \E c \in Callers : Subscribe(c)
    \/ \E c \in Callers, ch \in Chans : Unsubscribe(c, ch)
    \/ \E c \in Callers : WfsSubscribe(c)
    \/ \E c \in Callers : WfsSend(c)
    \/ \E c \in Callers : WfsWrite(c)
    \/ \E c \in Callers : WfsRecv(c)
    \/ \E c \in Callers : WfsCtxDone(c)
    \/ \E c \in Callers : WfsVtDone(c)
    \/ \E c \in Callers : WfsUnsubscribe(c)
    \/ \E c \in Callers : CtxCancel(c)
    \/ \E line \in StdoutLines : DecodeLine(line)
    \/ DecodeEOF
    \/ DecodeReadErr
    \/ DecodeTooLong
    \/ DecodePublish
    \/ DecodeAbort
    \/ DecodeFanout
    \/ DecodeSetErr
    \/ DecodeReturn
    \/ ExitWait
    \/ ExitCapture
    \/ ExitCancel
    \/ ChildExit
    \/ RecvEvents
    \/ \E ch \in Chans : RecvSub(ch)

Spec == Init /\ [][Next]_vars

\* The operations with a child that writes no line: the actions of the
\* event path are never enabled and are left out.
NextLife ==
    \/ \E c \in Callers : Start(c)
    \/ \E c \in Callers : CloseBegin(c)
    \/ \E c \in Callers : CloseCancel(c)
    \/ \E c \in Callers : CloseStdin(c)
    \/ \E c \in Callers : CloseWait(c)
    \/ \E c \in Callers : CloseFinal(c)
    \/ \E c \in Callers, t \in CommandTypes : SendBegin(c, t)
    \/ \E c \in Callers, t \in CommandTypes : SendWrite(c, t)
    \/ \E c \in Callers : Subscribe(c)
    \/ \E c \in Callers, ch \in Chans : Unsubscribe(c, ch)
    \/ \E c \in Callers : WfsSubscribe(c)
    \/ \E c \in Callers : WfsSend(c)
    \/ \E c \in Callers : WfsWrite(c)
    \/ \E c \in Callers : WfsCtxDone(c)
    \/ \E c \in Callers : WfsVtDone(c)
    \/ \E c \in Callers : WfsUnsubscribe(c)
    \/ \E c \in Callers : CtxCancel(c)
    \/ DecodeEOF
    \/ DecodeReadErr
    \/ DecodeSetErr
    \/ DecodeReturn
    \/ ExitWait
    \/ ExitCapture
    \/ ExitCancel
    \/ ChildExit

SpecLife == InitLife /\ [][NextLife]_vars

\* The event path: Start, the registry operations, Close, the two
\* goroutines, the child and the readers of the channels.
NextEvents ==
    \/ \E c \in Callers : Start(c)
    \/ \E c \in Callers : CloseBegin(c)
    \/ \E c \in Callers : CloseCancel(c)
    \/ \E c \in Callers : CloseStdin(c)
    \/ \E c \in Callers : CloseWait(c)
    \/ \E c \in Callers : CloseFinal(c)
    \/ \E c \in Callers : Subscribe(c)
    \/ \E c \in Callers, ch \in Chans : Unsubscribe(c, ch)
    \/ \E line \in StdoutLines : DecodeLine(line)
    \/ DecodeEOF
    \/ DecodeReadErr
    \/ DecodeTooLong
    \/ DecodePublish
    \/ DecodeAbort
    \/ DecodeFanout
    \/ DecodeSetErr
    \/ DecodeReturn
    \/ ExitWait
    \/ ExitCapture
    \/ ExitCancel
    \/ ChildExit
    \/ RecvEvents
    \/ \E ch \in Chans : RecvSub(ch)

SpecEvents == InitEvents /\ [][NextEvents]_vars

\* The event path with the budget of a Start and one other call.
SpecFirst == InitFirst /\ [][NextEvents]_vars

\* The registry and the fan-out while the instance runs: Start, Subscribe,
\* Unsubscribe, the decode goroutine, the child's lines and the readers.
NextRegistry ==
    \/ \E c \in Callers : Start(c)
    \/ \E c \in Callers : Subscribe(c)
    \/ \E c \in Callers, ch \in Chans : Unsubscribe(c, ch)
    \/ \E line \in StdoutLines : DecodeLine(line)
    \/ DecodePublish
    \/ DecodeFanout
    \/ RecvEvents
    \/ \E ch \in Chans : RecvSub(ch)

SpecRegistry == InitRegistry /\ [][NextRegistry]_vars

\* WaitForSnapshot answered by a live child: Start, the steps of the call,
\* the decode loop and the reader of the primary channel.
NextWfs ==
    \/ \E c \in Callers : Start(c)
    \/ \E c \in Callers : WfsSubscribe(c)
    \/ \E c \in Callers : WfsSend(c)
    \/ \E c \in Callers : WfsWrite(c)
    \/ \E c \in Callers : WfsRecv(c)
    \/ \E c \in Callers : WfsCtxDone(c)
    \/ \E c \in Callers : WfsUnsubscribe(c)
    \/ \E c \in Callers : CtxCancel(c)
    \/ \E line \in StdoutLines : DecodeLine(line)
    \/ DecodePublish
    \/ DecodeFanout
    \/ RecvEvents

SpecWfs == InitWfs /\ [][NextWfs]_vars

\* The decode loop given any protocol line, with one subscriber and the
\* readers of the channels.
NextDecode ==
    \/ \E c \in Callers : Start(c)
    \/ \E c \in Callers : Subscribe(c)
    \/ \E line \in ProtocolLines : DecodeLine(line)
    \/ DecodePublish
    \/ DecodeFanout
    \/ RecvEvents
    \/ \E ch \in Chans : RecvSub(ch)

SpecDecode == InitDecode /\ [][NextDecode]_vars

\* Size() on an instance made from any of the configurations.
NextSize == \E c \in Callers : SizeCall(c)

SpecSize == InitSize /\ [][NextSize]_vars

\* The command methods called with contexts that may be cancelled, on a
\* child that may exit.
NextCtx ==
    \/ \E c \in Callers : Start(c)
    \/ \E c \in Callers, t \in CommandTypes : SendBegin(c, t)
    \/ \E c \in Callers, t \in CommandTypes : SendWrite(c, t)
    \/ \E c \in Callers : CtxCancelCommand(c)
    \/ ChildExit

SpecCtx == InitCtx /\ [][NextCtx]_vars

\* WaitForSnapshot, the two goroutines and the reader of the primary
\* channel around a child that exits, which cancels vt.ctx.
NextCancel ==
    \/ \E c \in Callers : Start(c)
    \/ \E c \in Callers : WfsSubscribe(c)
    \/ \E c \in Callers : WfsSend(c)
    \/ \E c \in Callers : WfsWrite(c)
    \/ \E c \in Callers : WfsRecv(c)
    \/ \E c \in Callers : WfsCtxDone(c)
    \/ \E c \in Callers : WfsVtDone(c)
    \/ \E c \in Callers : WfsUnsubscribe(c)
    \/ \E line \in StdoutLines : DecodeLine(line)
    \/ DecodeEOF
    \/ DecodeReadErr
    \/ DecodePublish
    \/ DecodeAbort
    \/ DecodeFanout
    \/ DecodeSetErr
    \/ DecodeReturn
    \/ ExitWait
    \/ ExitCapture
    \/ ExitCancel
    \/ ChildExit
    \/ RecvEvents

\* What the Go scheduler and the kernel guarantee of these steps. A goroutine
\* that can take a step takes it; a select with a ready case takes one of
\* its ready cases; a write to the pipe of a child that has exited fails at
\* once. Nothing is assumed of the child's output, of the moment the
\* child exits, of the callers' decisions to call or of the reader of
\* Events().
FairCancel ==
    /\ \A c \in Callers : WF_vars(WfsSend(c))
    /\ \A c \in Callers : WF_vars(~stdinWritable /\ WfsWrite(c))
    /\ \A c \in Callers :
            WF_vars(WfsRecv(c) \/ WfsCtxDone(c) \/ WfsVtDone(c))
    /\ \A c \in Callers : WF_vars(WfsUnsubscribe(c))
    /\ WF_vars(DecodePublish \/ DecodeAbort)
    /\ WF_vars(DecodeFanout)
    /\ WF_vars(DecodeEOF)
    /\ WF_vars(DecodeReadErr)
    /\ WF_vars(DecodeSetErr)
    /\ WF_vars(DecodeReturn)
    /\ WF_vars(ExitWait)
    /\ WF_vars(ExitCapture)
    /\ WF_vars(ExitCancel)

SpecCancel == InitCancel /\ [][NextCancel]_vars /\ FairCancel

\* Close, from its call on, beside the commands, WaitForSnapshot, the two
\* goroutines and the child.
NextClose ==
    \/ \E c \in Callers : Start(c)
    \/ \E c \in Callers : CloseEnter(c)
    \/ \E c \in Callers : CloseLocked(c)
    \/ \E c \in Callers : CloseCancel(c)
    \/ \E c \in Callers : CloseStdin(c)
    \/ \E c \in Callers : CloseWait(c)
    \/ \E c \in Callers : CloseFinal(c)
    \/ \E c \in Callers, t \in CommandTypes : SendBegin(c, t)
    \/ \E c \in Callers, t \in CommandTypes : SendWrite(c, t)
    \/ \E c \in Callers : WfsSubscribe(c)
    \/ \E c \in Callers : WfsSend(c)
    \/ \E c \in Callers : WfsWrite(c)
    \/ \E c \in Callers : WfsRecv(c)
    \/ \E c \in Callers : WfsCtxDone(c)
    \/ \E c \in Callers : WfsVtDone(c)
    \/ \E c \in Callers : WfsUnsubscribe(c)
    \/ \E line \in StdoutLines : DecodeLine(line)
    \/ DecodeEOF
    \/ DecodeReadErr
    \/ DecodePublish
    \/ DecodeAbort
    \/ DecodeFanout
    \/ DecodeSetErr
    \/ DecodeReturn
    \/ ExitWait
    \/ ExitCapture
    \/ ExitCancel
    \/ ChildExit

\* What the scheduler, the kernel and the child guarantee. A goroutine that
\* can take a step takes it; a goroutine waiting for vt.mu gets it if the
\* lock is free again and again; a select with a ready case takes one; a
\* write to a closed pipe or to the pipe of a child that has exited fails
\* at once; the child exits once its stdin is closed or it is killed, which
\* exec.CommandContext does when vt.ctx is done. A write to the stdin of a
\* living child returns when the child reads, of which nothing is assumed,
\* and nothing is assumed of the child's output or of the callers'
\* decisions to call.
FairClose ==
    /\ \A c \in Callers : SF_vars(CloseLocked(c))
    /\ \A c \in Callers : WF_vars(CloseCancel(c))
    /\ \A c \in Callers : WF_vars(CloseStdin(c))
    /\ \A c \in Callers : WF_vars(CloseWait(c))
    /\ \A c \in Callers : SF_vars(CloseFinal(c))
    /\ \A c \in Callers, t \in CommandTypes :
            WF_vars(~stdinWritable /\ SendWrite(c, t))
    /\ \A c \in Callers : WF_vars(WfsSend(c))
    /\ \A c \in Callers : WF_vars(~stdinWritable /\ WfsWrite(c))
    /\ \A c \in Callers :
            WF_vars(WfsRecv(c) \/ WfsCtxDone(c) \/ WfsVtDone(c))
    /\ \A c \in Callers : SF_vars(WfsUnsubscribe(c))
    /\ WF_vars(DecodePublish \/ DecodeAbort)
    /\ WF_vars(DecodeFanout)
    /\ WF_vars(DecodeEOF)
    /\ WF_vars(DecodeReadErr)
    /\ SF_vars(DecodeSetErr)
    /\ WF_vars(DecodeReturn)
    /\ WF_vars(ExitWait)
    /\ SF_vars(ExitCapture)
    /\ WF_vars(ExitCancel)
    /\ WF_vars((stdin = "closed" \/ cancelled) /\ ChildExit)

SpecClose == InitClose /\ [][NextClose]_vars /\ FairClose

\* Every writer of the state vt.mu guards, the commands that hold its read
\* side, and readEvents with its fan-out as two steps around the read lock.
NextLock ==
    \/ \E c \in Callers : Start(c)
    \/ \E c \in Callers : CloseBegin(c)
    \/ \E c \in Callers : CloseCancel(c)
    \/ \E c \in Callers : CloseStdin(c)
    \/ \E c \in Callers : CloseWait(c)
    \/ \E c \in Callers : CloseFinal(c)
    \/ \E c \in Callers, t \in CommandTypes : SendBegin(c, t)
    \/ \E c \in Callers, t \in CommandTypes : SendWrite(c, t)
    \/ \E c \in Callers : Subscribe(c)
    \/ \E c \in Callers, ch \in Chans : Unsubscribe(c, ch)
    \/ \E line \in StdoutLines : DecodeLine(line)
    \/ DecodeEOF
    \/ DecodeReadErr
    \/ DecodePublish
    \/ DecodeAbort
    \/ FanoutRLock
    \/ FanoutSend
    \/ DecodeSetErr
    \/ DecodeReturn
    \/ ExitWait
    \/ ExitCapture
    \/ ExitCancel
    \/ ChildExit

SpecLock == InitLock /\ [][NextLock]_vars

\* Everything that makes, registers, removes, closes or sends on a
\* subscriber channel: Subscribe, Unsubscribe with any argument,
\* WaitForSnapshot, Close and the fan-out, with the goroutines and the child.
NextHandles ==
    \/ \E c \in Callers : Start(c)
    \/ \E c \in Callers : CloseBegin(c)
    \/ \E c \in Callers : CloseCancel(c)
    \/ \E c \in Callers : CloseStdin(c)
    \/ \E c \in Callers : CloseWait(c)
    \/ \E c \in Callers : CloseFinal(c)
    \/ \E c \in Callers : Subscribe(c)
    \/ \E c \in Callers, ch \in Chans : Unsubscribe(c, ch)
    \/ \E c \in Callers : UnsubscribeOther(c)
    \/ \E c \in Callers : WfsSubscribe(c)
    \/ \E c \in Callers : WfsSend(c)
    \/ \E c \in Callers : WfsWrite(c)
    \/ \E c \in Callers : WfsRecv(c)
    \/ \E c \in Callers : WfsCtxDone(c)
    \/ \E c \in Callers : WfsVtDone(c)
    \/ \E c \in Callers : WfsUnsubscribe(c)
    \/ \E line \in StdoutLines : DecodeLine(line)
    \/ DecodeEOF
    \/ DecodeReadErr
    \/ DecodePublish
    \/ DecodeAbort
    \/ DecodeFanout
    \/ DecodeSetErr
    \/ DecodeReturn
    \/ ExitWait
    \/ ExitCapture
    \/ ExitCancel
    \/ ChildExit

SpecHandles == InitHandles /\ [][NextHandles]_vars

\* The commands sent when Close is never called: one the child does not
\* answer and one it answers with a snapshot.
ExitCommands == {"input", "takeSnapshot"}

\* The instance when Close is never called: Start, the commands, Subscribe
\* and Unsubscribe, the two goroutines and the child.
NextExit ==
    \/ \E c \in Callers : Start(c)
    \/ \E c \in Callers, t \in ExitCommands : SendBegin(c, t)
    \/ \E c \in Callers, t \in ExitCommands : SendWrite(c, t)
    \/ \E c \in Callers : Subscribe(c)
    \/ \E c \in Callers, ch \in Chans : Unsubscribe(c, ch)
    \/ \E line \in StdoutLines : DecodeLine(line)
    \/ DecodeEOF
    \/ DecodeReadErr
    \/ DecodePublish
    \/ DecodeAbort
    \/ DecodeFanout
    \/ DecodeSetErr
    \/ DecodeReturn
    \/ ExitWait
    \/ ExitCapture
    \/ ExitCancel
    \/ ChildExit

\* Each goroutine that can take a step takes one; a goroutine waiting for
\* vt.mu gets it if the lock is free again and again; a write to the pipe
\* of a child that has exited fails at once. Nothing is assumed of the
\* child, of the callers or of a write to a living child.
FairExit ==
    /\ WF_vars(\E c \in Callers, t \in CommandTypes :
                  ~stdinWritable /\ SendWrite(c, t))
    /\ WF_vars(DecodeEOF \/ DecodeReadErr \/ DecodePublish \/ DecodeAbort
                  \/ DecodeFanout \/ DecodeReturn)
    /\ SF_vars(DecodeSetErr)
    /\ WF_vars(ExitWait \/ ExitCancel)
    /\ SF_vars(ExitCapture)

SpecExit == InitExit /\ [][NextExit]_vars /\ FairExit

\* The commands and the queries beside Start, Close, Subscribe, the two
\* goroutines and the child.
NextFrame ==
    \/ \E c \in Callers : Start(c)
    \/ \E c \in Callers : CloseBegin(c)
    \/ \E c \in Callers : CloseCancel(c)
    \/ \E c \in Callers : CloseStdin(c)
    \/ \E c \in Callers : CloseWait(c)
    \/ \E c \in Callers : CloseFinal(c)
    \/ \E c \in Callers, t \in CommandTypes : SendBegin(c, t)
    \/ \E c \in Callers, t \in CommandTypes : SendWrite(c, t)
    \/ \E c \in Callers : EventsCall(c)
    \/ \E c \in Callers : ErrCall(c)
    \/ \E c \in Callers : SizeCall(c)
    \/ \E c \in Callers : Subscribe(c)
    \/ \E line \in StdoutLines : DecodeLine(line)
    \/ DecodeEOF
    \/ DecodeReadErr
    \/ DecodePublish
    \/ DecodeAbort
    \/ DecodeFanout
    \/ DecodeSetErr
    \/ DecodeReturn
    \/ ExitWait
    \/ ExitCapture
    \/ ExitCancel
    \/ ChildExit

SpecFrame == InitFrame /\ [][NextFrame]_vars

\* The lines of a child whose terminal shows nothing new: its init line
\* and a snapshot line for a takeSnapshot it has read.
ShareLines == {line \in StdoutLines : line.type \in {"init", "snapshot"}}

\* Start and WaitForSnapshot calls whose contexts are never cancelled, on
\* one child, with a reader of Events(): calls enough for two
\* WaitForSnapshot calls at a time.
NextShare ==
    \/ \E c \in Callers : Start(c)
    \/ \E c \in Callers : WfsSubscribe(c)
    \/ \E c \in Callers : WfsSend(c)
    \/ \E c \in Callers : WfsWrite(c)
    \/ \E c \in Callers : WfsRecv(c)
    \/ \E c \in Callers : WfsUnsubscribe(c)
    \/ \E line \in ShareLines : DecodeLine(line)
    \/ DecodePublish
    \/ DecodeFanout
    \/ RecvEvents

SpecShare == InitShare /\ [][NextShare]_vars

\* ------------------------------------------------------------------ claims
\* What a failing Start must leave alone: the flags, the captured error, the
\* scope, the child, the goroutines, the primary channel and the registry.
startFrame ==
    <<started, closed, err, cancelled, wg, stdin, procVars, primVars, regVars,
      decVars, exVars>>

\* C1: Start on a Running instance returns ErrAlreadyStarted and changes
\* nothing: no child is spawned, no goroutine is launched, and the flags,
\* the registry and vt.err are as before.
C1_StartWhenRunning ==
    [][\A c \in Callers :
          (Start(c) /\ State = "Running") =>
              /\ lastRet' = [op |-> "Start", ret |-> ErrAlreadyStarted,
                             val |-> NoEvent]
              /\ UNCHANGED startFrame]_vars

\* A second Start has returned ErrAlreadyStarted on a Running instance
\* whose first child is alive.
C1_Witness ==
    /\ lastRet.op = "Start" /\ lastRet.ret = ErrAlreadyStarted
    /\ State = "Running" /\ spawned = 1 /\ proc = "running"

\* C2: Start on a Closed instance returns ErrClosed and spawns no child,
\* whether the instance was closed after a Start or never started.
C2_StartWhenClosed ==
    [][\A c \in Callers :
          (Start(c) /\ State = "Closed") =>
              /\ lastRet'.ret = ErrClosed
              /\ spawned' = spawned]_vars

\* C3: a command method (Input, SendKeys, Resize, TakeSnapshot, and the send
\* step of WaitForSnapshot) on a NotStarted instance yields ErrNotStarted
\* and writes nothing to the child's stdin; WaitForSnapshot returns what its
\* send step yielded.
C3_CommandWhenNotStarted ==
    [][\A c \in Callers :
          /\ \A t \in CommandTypes :
               (SendBegin(c, t) /\ State = "NotStarted") =>
                   /\ lastRet' = [op |-> MethodOf(t), ret |-> ErrNotStarted,
                                  val |-> NoEvent]
                   /\ pc'[c] = "idle"
                   /\ UNCHANGED <<written, readers>>
          /\ (WfsSend(c) /\ State = "NotStarted") =>
                   /\ wfsRes'[c] = [ret |-> ErrNotStarted, val |-> NoEvent]
                   /\ pc'[c] = "wfs_unsub"
                   /\ UNCHANGED <<written, readers>>
          /\ (WfsUnsubscribe(c) /\ wfsRes[c].ret = ErrNotStarted) =>
                   /\ lastRet' = [op |-> "WaitForSnapshot",
                                  ret |-> ErrNotStarted, val |-> NoEvent]
                   /\ UNCHANGED written]_vars

\* WaitForSnapshot has returned ErrNotStarted on an instance that was never
\* started, and nothing was written.
C3_Witness ==
    /\ lastRet.op = "WaitForSnapshot" /\ lastRet.ret = ErrNotStarted
    /\ State = "NotStarted" /\ spawned = 0 /\ written = <<>>

\* C4: a command method on a Closed instance returns ErrClosed and writes
\* nothing, whether the instance was closed after running or never started.
C4_CommandWhenClosed ==
    [][\A c \in Callers, t \in CommandTypes :
          (SendBegin(c, t) /\ State = "Closed") =>
              /\ lastRet' = [op |-> MethodOf(t), ret |-> ErrClosed,
                             val |-> NoEvent]
              /\ UNCHANGED written]_vars

closeFrame ==
    <<started, closed, err, cancelled, wg, stdin, procVars, primVars, regVars,
      decVars, exVars, written, panicked>>

Made == 1..nextChan

\* What holds when the shutdown of Close is complete.
ShutDown ==
    /\ cancelled
    /\ decPc \in {"idle", "done"} /\ exPc \in {"idle", "done"}
    /\ subscribers = <<>>
    /\ \A ch \in Made : chanClosed[ch]

\* A step in which a call of Close returns.
CloseReturns(c) ==
    /\ pc[c] \in {"idle", "close_final"}
    /\ pc'[c] = "idle"
    /\ lastRet'.op = "Close"
    /\ (CloseBegin(c) \/ CloseFinal(c))

\* C6 as claimed: whenever a call of Close returns, a second or concurrent
\* one too, the scope is cancelled, both goroutines have stopped, every
\* channel made is closed and the registry is empty.
C6_CloseReturnsShutDown ==
    [][\A c \in Callers : CloseReturns(c) => ShutDown']_vars

\* C6 as amended: when the call of Close that set vt.closed returns, the
\* scope is cancelled, both goroutines have stopped, every channel made is
\* closed and the registry is empty.
C6_FirstCloseShutDown ==
    [][\A c \in Callers : CloseFinal(c) => ShutDown']_vars

\* The first Close has returned on an instance that was started and had a
\* subscriber; the goroutines have run and stopped.
C6_Witness ==
    /\ lastRet.op = "Close" /\ closeRets # {}
    /\ \A c \in Callers : pc[c] = "idle"
    /\ decPc = "done" /\ exPc = "done"
    /\ nextChan >= 1
    /\ ShutDown

\* Some call of Close has returned and none is under way.
CloseHasReturned ==
    /\ closeRets # {}
    /\ \A c \in Callers :
          pc[c] \notin {"close_cancel", "close_stdin", "close_wait",
                        "close_final"}

\* C7: once Close has returned, the primary channel is closed, whether the
\* instance was started or not.
C7_EventsClosedAfterClose == CloseHasReturned => eventsClosed

\* C8: once vt.err is set, no step changes it.
C8_ErrWriteOnce == [][err # Nil => err' = err]_vars

\* s is the beginning of t.
IsPrefix(s, t) == Len(s) <= Len(t) /\ SubSeq(t, 1, Len(s)) = s

\* s is the end of t.
IsSuffix(s, t) ==
    Len(s) <= Len(t) /\ SubSeq(t, Len(t) - Len(s) + 1, Len(t)) = s

\* s is t with some elements left out.
RECURSIVE IsSubseq(_, _)
IsSubseq(s, t) ==
    IF s = <<>> THEN TRUE
    ELSE IF t = <<>> THEN FALSE
    ELSE IF Head(s) = Head(t) THEN IsSubseq(Tail(s), Tail(t))
    ELSE IsSubseq(s, Tail(t))

\* C9: the events sent on the primary channel are, in order, the events
\* decoded so far, but at most for the one in hand; the events sent on a
\* subscriber channel are, in order and without repetition, some of the
\* events sent on the primary channel; and what a channel holds is the
\* unread end of what was sent on it.
C9_Order ==
    /\ \A i, j \in 1..Len(decoded) : i < j => decoded[i].id < decoded[j].id
    /\ IsPrefix(primaryHist, decoded)
    /\ Len(decoded) - Len(primaryHist) <= 1
    /\ IsSuffix(events, primaryHist)
    /\ \A ch \in Chans :
          /\ IsSubseq(delivered[ch], primaryHist)
          /\ IsSuffix(chanBuf[ch], delivered[ch])

\* Two events were published and a subscriber whose channel was full at
\* the second was sent the first only.
C9_Witness ==
    /\ Len(primaryHist) = 2 /\ decPc = "scan"
    /\ \E ch \in Made :
          overflowed[ch] /\ delivered[ch] = <<primaryHist[1]>>

\* The events published: those sent on the primary channel whose fan-out
\* is over.
Published ==
    IF decPc = "fanout" THEN SubSeq(primaryHist, 1, Len(primaryHist) - 1)
    ELSE primaryHist

\* A subscriber registered before any event was sent on the primary
\* channel, still registered, whose channel was never full at a fan-out.
EarlySub(ch) ==
    /\ ch \in Made /\ ch \in Registered
    /\ regAt[ch] = 0
    /\ ~overflowed[ch]

\* C10: two subscribers registered before any event is published and
\* never overflowing were sent the same sequence, the one published, and
\* it begins with the init event.
C10_SameSequence ==
    \A a, b \in Chans :
        (a # b /\ EarlySub(a) /\ EarlySub(b)) =>
            /\ delivered[a] = delivered[b]
            /\ delivered[a] = Published
            /\ (delivered[a] # <<>> => delivered[a][1].type = "init")

\* Two subscribers registered before Start were both sent the two events
\* published.
C10_Witness ==
    /\ EarlySub(1) /\ EarlySub(2)
    /\ Len(primaryHist) = 2 /\ decPc = "scan"
    /\ delivered[1] = primaryHist /\ delivered[2] = primaryHist

\* C11: at the fan-out of an event, a registered channel that is full is
\* skipped and keeps its content; the event is already on the primary
\* channel and stays there, every other registered channel with room is sent
\* it, and the decode goroutine goes on to its next read in the same step.
C11_DropForFullOnly ==
    [][DecodeFanout =>
          /\ primaryHist # <<>> /\ curEvent = primaryHist[Len(primaryHist)]
          /\ UNCHANGED <<events, primaryHist>>
          /\ decPc' = "scan"
          /\ \A ch \in Chans :
                chanBuf'[ch] =
                    IF ch \in Registered /\ Len(chanBuf[ch]) < SubCap
                    THEN Append(chanBuf[ch], curEvent)
                    ELSE chanBuf[ch]]_vars

\* The second event was dropped for a subscriber whose channel was full and
\* sent to another subscriber, registered after it, whose channel had room.
C11_Witness ==
    /\ Len(primaryHist) = 2 /\ decPc = "scan"
    /\ Len(subscribers) = 2
    /\ overflowed[subscribers[1]] /\ ~overflowed[subscribers[2]]
    /\ delivered[subscribers[1]] = <<primaryHist[1]>>
    /\ delivered[subscribers[2]] = primaryHist

\* The number of Init events in a sequence of events.
InitCount(seq) == Cardinality({i \in 1..Len(seq) : seq[i].type = "init"})

SubscribedAfterStart ==
    /\ started /\ ~closed
    /\ nextChan = 1 /\ 1 \in Registered
    /\ lastRet.op = "Subscribe"
    /\ events = primaryHist

\* C13: a subscriber registered after Start returned, before the caller has
\* read any event, is sent the Init event first: once the Init event has been
\* through the fan-out, it is the first event sent on the subscriber's
\* channel.
C13_InitFirstAfterStart ==
    (SubscribedAfterStart /\ Published # <<>>) =>
        (delivered[1] # <<>> /\ delivered[1][1].type = "init")

\* C14 as claimed: the only changes of the lifecycle state are NotStarted to
\* Running and Running to Closed.
C14_OnlyTwoTransitions ==
    [][\/ State' = State
       \/ State = "NotStarted" /\ State' = "Running"
       \/ State = "Running" /\ State' = "Closed"]_vars

\* C14 as amended: the lifecycle state changes only in a step of Start or of
\* Close, from NotStarted to Running, from Running to Closed, or from
\* NotStarted to Closed; neither flag is ever cleared, and once the instance
\* is Closed it is never started and no child is spawned.
C14_Monotonic ==
    [][/\ \/ State' = State
          \/ State = "NotStarted" /\ State' = "Running"
          \/ State = "Running" /\ State' = "Closed"
          \/ State = "NotStarted" /\ State' = "Closed"
       /\ State' # State => \E c \in Callers : Start(c) \/ CloseBegin(c)
       /\ started => started'
       /\ closed => (closed' /\ started' = started /\ spawned' = spawned)]_vars

\* Start has failed with ErrClosed on an instance closed without having
\* been started: the state went from NotStarted to Closed and stayed there.
C14_Witness ==
    /\ State = "Closed" /\ ~started /\ spawned = 0
    /\ lastRet = [op |-> "Start", ret |-> ErrClosed, val |-> NoEvent]

\* C15: Unsubscribe of a registered channel takes exactly that channel out
\* of the registry, the others keeping their order, and closes it without
\* touching what is queued on any channel; a closed channel is never in the
\* registry, is never sent an event again and can only be drained, so its
\* reader comes to the end of the stream.
C15_UnsubscribeRemovesOne ==
    [][/\ \A c \in Callers, ch \in Chans :
            (Unsubscribe(c, ch) /\ ch \in Registered) =>
                /\ {subscribers'[i] : i \in 1..Len(subscribers')}
                       = Registered \ {ch}
                /\ Len(subscribers') = Len(subscribers) - 1
                /\ IsSubseq(subscribers', subscribers)
                /\ chanClosed' = [chanClosed EXCEPT ![ch] = TRUE]
                /\ UNCHANGED <<chanBuf, delivered>>
       /\ \A ch \in Chans :
            chanClosed[ch] =>
                /\ ch \notin Registered
                /\ chanClosed'[ch]
                /\ delivered'[ch] = delivered[ch]
                /\ IsSuffix(chanBuf'[ch], chanBuf[ch])
       /\ ~panicked']_vars

\* The first of two subscribers was unsubscribed with the Init event still
\* queued on its channel; the Output event published afterwards was sent to
\* the other subscriber only.
C15_Witness ==
    /\ Len(primaryHist) = 2 /\ decPc = "scan"
    /\ nextChan = 2 /\ subscribers = <<2>>
    /\ chanClosed[1] /\ chanBuf[1] = <<primaryHist[1]>>
    /\ delivered[1] = <<primaryHist[1]>>
    /\ delivered[2] = primaryHist

\* The index of the first Snapshot event of a sequence of events, 0 if none.
FirstSnapshot(seq) ==
    LET S == {i \in 1..Len(seq) : seq[i].type = "snapshot"}
    IN IF S = {} THEN 0 ELSE CHOOSE i \in S : \A j \in S : i <= j

\* C17: when WaitForSnapshot is about to return successfully, its value is
\* the first Snapshot event that was sent on its own channel; the events
\* sent on the channel before it are of other variants, are all read
\* already and are not the value.
C17_FirstSnapshotReturned ==
    \A c \in Callers :
        (pc[c] = "wfs_unsub" /\ wfsRes[c].ret = Nil) =>
            LET d == delivered[wfsCh[c]]
                k == FirstSnapshot(d)
            IN /\ k > 0
               /\ wfsRes[c].val = d[k]
               /\ wfsRes[c].val.type = "snapshot"
               /\ \A i \in 1..(k - 1) : d[i].type # "snapshot"
               /\ Len(chanBuf[wfsCh[c]]) <= Len(d) - k

\* A WaitForSnapshot whose channel was sent the Init event and then the
\* Snapshot event read both and is about to return the Snapshot event.
C17_Witness ==
    \E c \in Callers :
        /\ pc[c] = "wfs_unsub" /\ wfsRes[c].ret = Nil
        /\ Len(delivered[wfsCh[c]]) = 2
        /\ delivered[wfsCh[c]][1].type = "init"
        /\ wfsRes[c].val = delivered[wfsCh[c]][2]

\* The positions of a caller inside WaitForSnapshot.
WfsPcs == {"wfs_send", "wfs_write", "wfs_loop", "wfs_unsub"}

NoSnapshotQueued(c) ==
    \A i \in 1..Len(chanBuf[wfsCh[c]]) :
        chanBuf[wfsCh[c]][i].type # "snapshot"

\* C18: a WaitForSnapshot that leaves its wait loop with no Snapshot event
\* queued on its channel carries no snapshot; it carries the error of the
\* caller's context when only that context is done, and ErrClosed when only
\* the terminal's context is done.
C18_CancelledWaitReturnsError ==
    [][\A c \in Callers :
        (pc[c] = "wfs_loop" /\ pc'[c] # "wfs_loop" /\ NoSnapshotQueued(c)) =>
            /\ pc'[c] = "wfs_unsub"
            /\ ctxDone[c] \/ cancelled
            /\ wfsRes'[c].val = NoEvent
            /\ wfsRes'[c].ret \in {ErrCtx, ErrClosed}
            /\ (ctxDone[c] /\ ~cancelled) => wfsRes'[c].ret = ErrCtx
            /\ (cancelled /\ ~ctxDone[c]) => wfsRes'[c].ret = ErrClosed
      ]_vars

\* Two calls have left their wait loops: one whose context was cancelled
\* carries that context's error, the other, whose context is live, carries
\* ErrClosed because the child exited; Close was never called.
C18_Witness ==
    /\ started /\ ~closed /\ cancelled
    /\ \E c, d \in Callers :
        /\ pc[c] = "wfs_unsub" /\ pc[d] = "wfs_unsub"
        /\ ctxDone[c] /\ wfsRes[c] = [ret |-> ErrCtx, val |-> NoEvent]
        /\ ~ctxDone[d] /\ wfsRes[d] = [ret |-> ErrClosed, val |-> NoEvent]

\* C19: a WaitForSnapshot that leaves its wait loop while the caller's
\* context and the terminal's context are both done does not carry
\* ErrClosed.
C19_CallerCancelFirst ==
    [][\A c \in Callers :
        (pc[c] = "wfs_loop" /\ pc'[c] = "wfs_unsub"
            /\ ctxDone[c] /\ cancelled) =>
                wfsRes'[c].ret # ErrClosed
      ]_vars

\* The errors with which the send step of WaitForSnapshot can fail.
SendErrors == {ErrNotStarted, ErrClosed, ErrWrite}

\* C20: when the checks of sendCommand or its write fail, WaitForSnapshot
\* goes straight to its deferred Unsubscribe with that error and no
\* snapshot, reading nothing from its channel; from there its next step
\* returns that error and no snapshot, and its channel has left the
\* registry.
C20_SendFailureReturnsAtOnce ==
    [][\A c \in Callers :
        /\ (pc[c] = "wfs_send" /\ pc'[c] # pc[c]
                /\ sendCommandCheck # Nil) =>
              /\ sendCommandCheck \in {ErrNotStarted, ErrClosed}
              /\ pc'[c] = "wfs_unsub"
              /\ wfsRes'[c] = [ret |-> sendCommandCheck, val |-> NoEvent]
              /\ UNCHANGED <<chanBuf, written>>
        /\ (pc[c] = "wfs_write" /\ pc'[c] # pc[c] /\ ~stdinWritable) =>
              /\ pc'[c] = "wfs_unsub"
              /\ wfsRes'[c] = [ret |-> ErrWrite, val |-> NoEvent]
              /\ UNCHANGED <<chanBuf, written>>
        /\ (pc[c] \in {"wfs_send", "wfs_write"} /\ pc'[c] = "wfs_unsub") =>
              wfsRes'[c].ret \in SendErrors
        /\ (pc[c] = "wfs_unsub" /\ pc'[c] # pc[c]
                /\ wfsRes[c].ret \in SendErrors) =>
              /\ pc'[c] = "idle"
              /\ lastRet' = [op |-> "WaitForSnapshot",
                             ret |-> wfsRes[c].ret, val |-> NoEvent]
              /\ \A i \in 1..Len(subscribers') :
                     subscribers'[i] # wfsCh[c]
              /\ chanBuf'[wfsCh[c]] = chanBuf[wfsCh[c]]
      ]_vars

\* On a started terminal that was never closed a WaitForSnapshot returned
\* the write error: the child had exited before the command was written;
\* the call's channel is closed and the registry is empty again.
C20_Witness ==
    /\ started /\ ~closed
    /\ lastRet = [op |-> "WaitForSnapshot", ret |-> ErrWrite,
                  val |-> NoEvent]
    /\ nextChan = 1 /\ subscribers = <<>> /\ chanClosed[1]
    /\ written = <<>>

\* ------------------------------------------------------- claims C21..C30
\* The callers that are inside vt.stdin.Write.
Writing == {c \in Callers :
               pc[c] = "wfs_write"
               \/ \E t \in CommandTypes : pc[c] = "write_" \o t}

\* C23: a caller inside the write of a command to the child's stdin does
\* not hold the read side of vt.mu (the decode task reading stdout and the
\* exit-watch task in cmd.Wait hold no lock in any state).
C23_NoLockAcrossIO ==
    \A c \in Writing : c \notin readers

\* C24: once the child has exited, waitForExit takes the result of cmd.Wait,
\* sets vt.err to the process-exited error exactly when that result is an
\* error and vt.err is still nil, and then cancels vt.ctx whatever the
\* result was; no other step sets vt.err to the process-exited error.
C24_ExitCapturedThenCancel ==
    [][/\ (exPc = "wait" /\ exPc' # exPc) =>
              /\ proc = "exited"
              /\ exPc' = "capture" /\ waitErr' = exitErr
              /\ UNCHANGED <<err, cancelled>>
       /\ (exPc = "capture" /\ exPc' # exPc) =>
              /\ exPc' = "cancel"
              /\ err' = IF waitErr /\ err = Nil THEN ErrExited ELSE err
              /\ UNCHANGED <<cancelled, waitErr>>
       /\ (exPc = "cancel" /\ exPc' # exPc) =>
              /\ exPc' = "done"
              /\ cancelled'
              /\ UNCHANGED err
       /\ (err' = ErrExited /\ err # ErrExited) => exPc = "capture"
       /\ exPc' = "done" => cancelled'
      ]_vars

\* The child exited abnormally after readEvents had recorded a read error:
\* waitForExit left that error in place and cancelled vt.ctx; Close was
\* never called.
C24_Witness ==
    /\ exPc = "done" /\ cancelled /\ ~closed
    /\ waitErr /\ err = ErrStdout

\* The names of the four command methods.
CommandMethods == {MethodOf(t) : t \in CommandTypes}

\* C27: a command whose write to the child's stdin fails returns the write
\* error to its caller in that same step, and the step leaves vt.err, the
\* two lifecycle flags and vt.ctx as they were.
C27_WriteFailureReturned ==
    [][\A c \in Callers :
        /\ \A t \in CommandTypes :
            (pc[c] = "write_" \o t /\ pc'[c] # pc[c] /\ ~stdinWritable) =>
                /\ lastRet' = [op |-> MethodOf(t), ret |-> ErrWrite,
                               val |-> NoEvent]
                /\ pc'[c] = "idle"
                /\ UNCHANGED <<err, started, closed, cancelled, written>>
        /\ (pc[c] = "wfs_write" /\ pc'[c] # pc[c] /\ ~stdinWritable) =>
                /\ wfsRes'[c] = [ret |-> ErrWrite, val |-> NoEvent]
                /\ UNCHANGED <<err, started, closed, cancelled, written>>
        /\ (err' = ErrWrite) => (err = ErrWrite)
      ]_vars

\* Input returned the write error on a running terminal whose child had
\* exited; vt.err is nil and nothing was written.
C27_Witness ==
    /\ started /\ ~closed /\ err = Nil
    /\ lastRet = [op |-> "Input", ret |-> ErrWrite, val |-> NoEvent]
    /\ proc = "exited" /\ written = <<>>

\* C28: a Start that failed to set up the pipes or the process leaves
\* vt.started false, vt.wg at zero and both goroutines unlaunched; while
\* vt.started is false no goroutine runs, a command method fails its check
\* with ErrNotStarted, every command that returned did so with
\* ErrNotStarted, and a Close at vt.wg.Wait() has nothing to wait for.
C28_FailedStartLaunchesNothing ==
    /\ (lastRet.op = "Start" /\ lastRet.ret = ErrSpawn) => ~started
    /\ ~started =>
          /\ wg = 0 /\ decPc = "idle" /\ exPc = "idle"
          /\ proc = "none" /\ spawned = 0
          /\ sendCommandCheck = ErrNotStarted
          /\ lastRet.op \in CommandMethods => lastRet.ret = ErrNotStarted
          /\ \A c \in Callers : pc[c] \notin {"write_" \o t : t \in CommandTypes}

\* cmd.Start failed in Start, which left the stdin pipe closed; the Close
\* that followed has returned nil.
C28_Witness ==
    /\ ~started /\ closed /\ stdin = "closed" /\ spawned = 0
    /\ lastRet = [op |-> "Close", ret |-> Nil, val |-> NoEvent]

\* C25: reading a line that parseEvent rejects sends nothing on vt.events
\* or on any subscriber channel, changes neither vt.err nor the lifecycle
\* flags nor vt.ctx, and leaves readEvents at scanner.Scan() for the next
\* line; so every event ever published is one that was decoded.
C25_BadLineSkipped ==
    [][/\ \A line \in ProtocolLines :
            (DecodeLine(line) /\ parseEvent(line, lines + 1).err # Nil) =>
                /\ decPc' = "scan"
                /\ lines' = lines + 1
                /\ UNCHANGED <<events, primaryHist, chanBuf, delivered,
                               decoded, curEvent>>
                /\ UNCHANGED <<err, started, closed, cancelled,
                               eventsClosed, wg>>
       /\ \A i \in 1..Len(primaryHist') :
            \E j \in 1..Len(decoded') : primaryHist'[i] = decoded'[j]
      ]_vars

\* The first line did not parse; the second was decoded, published on
\* vt.events and sent to the subscriber; vt.err is nil.
C25_Witness ==
    /\ lines = 2 /\ decPc = "scan" /\ err = Nil /\ ~cancelled
    /\ Len(decoded) = 1 /\ decoded[1].id = 2
    /\ primaryHist = decoded
    /\ nextChan = 1 /\ delivered[1] = decoded

\* C26: a line that unmarshals and carries one of the five type tags is
\* decoded into the event of that tag, which goes on to the publish; a
\* line that unmarshals with any other tag is rejected.
C26_EveryTagDecoded ==
    [][\A line \in ProtocolLines :
        (DecodeLine(line) /\ line.wellformed) =>
            IF line.type \in EventTypes
            THEN /\ decPc' = "publish"
                 /\ curEvent' = [id |-> lines + 1, type |-> line.type]
            ELSE /\ decPc' = "scan"
                 /\ parseEvent(line, lines + 1).err = ErrInvalidEvent
      ]_vars

\* A nonempty sequence of decimal digits.
IsNumber(p) == p # <<>> /\ \A i \in 1..Len(p) : p[i] \in DigitChars

RECURSIVE Pow10(_)
Pow10(k) == IF k = 0 THEN 1 ELSE 10 * Pow10(k - 1)

RECURSIVE PlaceSum(_, _)
PlaceSum(p, i) ==
    IF i > Len(p) THEN 0
    ELSE DigitValue(p[i]) * Pow10(Len(p) - i) + PlaceSum(p, i + 1)

\* The number a sequence of decimal digits denotes.
NumberOf(p) == PlaceSum(p, 1)

\* The positions of the separator in a size string.
Separators(s) == {i \in 1..Len(s) : s[i] = "x"}

\* A size string of the form COLSxROWS.
WellFormedSize(s) ==
    \E i \in Separators(s) :
        IsNumber(SubSeq(s, 1, i - 1)) /\ IsNumber(SubSeq(s, i + 1, Len(s)))

\* The integer one half of a size string denotes, 0 if it denotes none.
HalfValue(p) ==
    IF IsNumber(p) THEN NumberOf(p)
    ELSE IF p # <<>> /\ p[1] = "-" /\ IsNumber(Tail(p))
         THEN 0 - NumberOf(Tail(p))
    ELSE IF p # <<>> /\ p[1] = "+" /\ IsNumber(Tail(p))
         THEN NumberOf(Tail(p))
    ELSE 0

BothPositive == config.Cols > 0 /\ config.Rows > 0

C30_CommandsHonourContext ==
    [][\A c \in Callers, t \in CommandTypes :
        (pc[c] = "write_" \o t /\ pc'[c] = "idle" /\ ctxDone[c]) =>
            /\ lastRet' = [op |-> MethodOf(t), ret |-> ErrCtx,
                           val |-> NoEvent]
            /\ written' = written
      ]_vars

\* ------------------------------------------------------------------- C21
\* The decode loop waits at its send to a full vt.events.
PublishBlocked == decPc = "publish" /\ Len(events) = EventsCap

\* WaitForSnapshot waits in its loop on an empty channel.
WfsBlocked(c) == pc[c] = "wfs_loop" /\ chanBuf[wfsCh[c]] = <<>>

ClosePcs ==
    {"close_lock", "close_cancel", "close_stdin", "close_wait", "close_final"}

\* C22: a call to Close returns, whatever the decode loop, the exit watch,
\* the commands and the WaitForSnapshot calls are doing when it is made,
\* given that the child exits once its stdin is closed or it is killed.
C22_CloseReturns ==
    \A c \in Callers : (pc[c] \in ClosePcs) ~> (pc[c] = "idle")

\* ------------------------------------------------------- claims C31..C40
\* C31: vt.events is closed by readEvents at the step in which it stops,
\* and at no other step: the channel is closed if and only if readEvents
\* has ended, the closing step finds it open, and no event is sent on it
\* once it is closed. The child's own exit brings this about with no call
\* of Close.
C31_PrimaryClosedOnce ==
    [][ /\ eventsClosed' <=> decPc' = "done"
        /\ (decPc = "return" /\ decPc' = "done") => ~eventsClosed
        /\ eventsClosed => eventsClosed'
        /\ primaryHist' # primaryHist => ~eventsClosed /\ ~eventsClosed'
      ]_vars

\* The child wrote a line and exited on its own; readEvents published the
\* event, met the end of the output and closed vt.events; Close was never
\* called.
C31_Witness ==
    /\ eventsClosed /\ ~panicked
    /\ ~closed /\ closeRets = {}
    /\ proc = "exited"
    /\ primaryHist # <<>>
    /\ \A c \in Callers : pc[c] = "idle"

\* ------------------------------------------------------------------- C32
\* C32: a step that writes vt.subscribers, vt.started, vt.closed or vt.err
\* is taken with nobody holding the read side of vt.mu, which is when the
\* exclusive lock is granted; readEvents holds the read side throughout
\* its loop over vt.subscribers; and while it does, the registry does not
\* change.
C32_WritesUnderLock ==
    [][ /\ (\/ subscribers' # subscribers
            \/ started' # started
            \/ closed' # closed
            \/ err' # err) => readers = {} /\ readers' = {}
        /\ decPc = "fanout_locked" => DecodeTask \in readers
        /\ DecodeTask \in readers => subscribers' = subscribers
      ]_vars

\* readEvents is inside its loop over a registry of one channel while a
\* command holds the read side as well.
C32_Witness ==
    /\ decPc = "fanout_locked"
    /\ DecodeTask \in readers
    /\ \E c \in Callers : c \in readers
    /\ subscribers # <<>>

\* ------------------------------------------------------------------- C33
\* A step in which Unsubscribe runs: a call of it by the program, which is
\* one step, or the deferred call of WaitForSnapshot.
UnsubscribeStep ==
    \/ callsLeft' = callsLeft - 1 /\ pc' = pc /\ lastRet'.op = "Unsubscribe"
    \/ \E c \in Callers : pc[c] = "wfs_unsub" /\ pc'[c] = "idle"

\* C33: no step sends on a closed subscriber channel or closes one that is
\* closed already; a closed channel stays closed and is sent nothing more;
\* and a call of Unsubscribe either removes one open channel from the
\* registry and closes it, or, given a channel that is not registered (a
\* second Unsubscribe, a channel Subscribe never returned, a channel Close
\* has closed), changes neither the registry nor any channel.
C33_NoSendOrCloseOnClosed ==
    [][ /\ ~panicked'
        /\ \A ch \in Chans :
              chanClosed[ch] =>
                  chanClosed'[ch] /\ delivered'[ch] = delivered[ch]
        /\ UnsubscribeStep =>
              \/ subscribers' = subscribers /\ chanClosed' = chanClosed
              \/ \E ch \in Registered :
                    /\ ~chanClosed[ch]
                    /\ subscribers' = Without(subscribers, ch)
                    /\ chanClosed' = [chanClosed EXCEPT ![ch] = TRUE]
      ]_vars

\* Subscribe, Close, then Unsubscribe of the channel Close has closed:
\* nothing panicked and the registry is empty.
C33_Witness ==
    /\ closed /\ closeRets # {}
    /\ lastRet.op = "Unsubscribe"
    /\ handles # {}
    /\ \A ch \in handles : chanClosed[ch]
    /\ subscribers = <<>>
    /\ callsLeft = 0
    /\ ~panicked

\* ------------------------------------------------------------------- C34
\* C34: while readEvents waits at its send to a full vt.events, no step
\* sends anything on a subscriber channel; whatever is sent on a subscriber
\* channel is the event sent last on vt.events; and a WaitForSnapshot in
\* its loop whose context is not done, with no Snapshot queued on its
\* channel and vt.ctx not done, stays in its loop, also when the event
\* readEvents holds is the Snapshot the child replied with.
C34_BlockedPublishDelaysAll ==
    [][ /\ PublishBlocked => delivered' = delivered
        /\ \A ch \in Chans :
              delivered'[ch] # delivered[ch] =>
                  /\ primaryHist # <<>>
                  /\ delivered'[ch] =
                        Append(delivered[ch], primaryHist[Len(primaryHist)])
        /\ \A c \in Callers :
              (/\ PublishBlocked /\ ~cancelled
               /\ pc[c] = "wfs_loop" /\ ~ctxDone[c]
               /\ NoSnapshotQueued(c)) => pc'[c] = "wfs_loop"
      ]_vars

\* The child has replied to the takeSnapshot of a WaitForSnapshot; the
\* Snapshot is in the hand of readEvents, which waits at the full
\* vt.events; the call waits on its empty channel.
C34_Witness ==
    /\ PublishBlocked /\ ~cancelled
    /\ curEvent.type = "snapshot"
    /\ \E c \in Callers :
          /\ pc[c] = "wfs_loop" /\ ~ctxDone[c]
          /\ chanBuf[wfsCh[c]] = <<>>
          /\ delivered[wfsCh[c]] # <<>>

\* ------------------------------------------------------------------- C35
\* A step in which a command method returns: at once from the checks of
\* sendCommand, or from its write.
CommandReturnStep ==
    \/ /\ callsLeft' = callsLeft - 1 /\ pc' = pc
       /\ lastRet'.op \in CommandMethods
    \/ \E c \in Callers, t \in CommandTypes :
          pc[c] = "write_" \o t /\ pc'[c] = "idle"

\* A step that closes no subscriber channel and takes none out of the
\* registry.
ChannelsKept ==
    /\ chanClosed' = chanClosed
    /\ \A ch \in Registered : ch \in Registered'

\* C35: with no call of Close, after the child has exited vt.ctx comes to
\* be done and vt.events closed; the state stays Running; a registered
\* channel is open, and a channel is closed or leaves the registry only
\* in a step of Unsubscribe; and a command method that returns after the
\* exit returns the write error, not ErrClosed.
C35_ExitWithoutClose ==
    /\ (proc = "exited") ~> (cancelled /\ eventsClosed)
    /\ [](started => State = "Running")
    /\ [](\A ch \in Registered : ~chanClosed[ch])
    /\ [][(~UnsubscribeStep) => ChannelsKept]_vars
    /\ [][(CommandReturnStep /\ started /\ proc = "exited")
              => (lastRet'.ret = ErrWrite)]_vars

\* The child exited on its own: vt.ctx is done, vt.events is closed, the
\* instance is Running, a subscriber channel is registered and open, and
\* the command that returned last failed with the write error.
C35_Witness ==
    /\ proc = "exited" /\ cancelled /\ eventsClosed
    /\ State = "Running"
    /\ subscribers # <<>>
    /\ \A ch \in Registered : ~chanClosed[ch]
    /\ lastRet.op \in CommandMethods /\ lastRet.ret = ErrWrite
    /\ callsLeft = 0

\* ------------------------------------------------------------------- C36
\* The first call of Close, the one that found vt.closed false, has
\* returned.
CloseCompleted ==
    /\ closed
    /\ \A c \in Callers :
          pc[c] \notin {"close_cancel", "close_stdin", "close_wait",
                        "close_final"}

\* A step in which Subscribe runs.
SubscribeStep ==
    callsLeft' = callsLeft - 1 /\ pc' = pc /\ lastRet'.op = "Subscribe"

\* C36: once Close has completed, a call of Subscribe still appends a
\* new channel to the registry and returns it open and empty; no event
\* is sent on any subscriber channel from then on; and no step but one of
\* Unsubscribe closes a channel or takes one out of the registry, a later
\* Close included.
C36_SubscribeAfterClose ==
    /\ [][(CloseCompleted /\ SubscribeStep) =>
            /\ nextChan' = nextChan + 1
            /\ subscribers' = Append(subscribers, nextChan')
            /\ nextChan' \in handles' \ handles
            /\ ~chanClosed'[nextChan']
            /\ chanBuf'[nextChan'] = <<>>]_vars
    /\ [][CloseCompleted => (delivered' = delivered /\ chanBuf' = chanBuf)]_vars
    /\ [][(CloseCompleted /\ ~UnsubscribeStep) => ChannelsKept]_vars
    /\ [][CloseCompleted => CloseCompleted']_vars

\* Close has completed, a channel subscribed afterwards is registered and
\* open, and a second Close has returned since.
C36_Witness ==
    /\ CloseCompleted
    /\ subscribers # <<>>
    /\ \A ch \in Registered : ~chanClosed[ch] /\ delivered[ch] = <<>>
    /\ lastRet.op = "Close"

\* ------------------------------------------------------------------- C37
\* C37: on an instance that was never started, Close waits for nothing:
\* no goroutine is counted in vt.wg and nobody holds the read lock; the
\* step in which it returns returns nil with vt.ctx done, every channel
\* that was registered closed, the registry empty and the state Closed;
\* from then on Start returns ErrClosed and starts nothing, and no child
\* process is ever created.
C37_CloseNeverStarted ==
    /\ [](closed /\ ~started =>
            /\ wg = 0 /\ readers = {}
            /\ spawned = 0 /\ proc = "none"
            /\ decPc = "idle" /\ exPc = "idle")
    /\ [][\A c \in Callers :
            (~started /\ pc[c] = "close_final" /\ pc'[c] = "idle") =>
                /\ lastRet' = [op |-> "Close", ret |-> Nil, val |-> NoEvent]
                /\ cancelled'
                /\ \A ch \in Registered : chanClosed'[ch]
                /\ subscribers' = <<>>
                /\ State' = "Closed"]_vars
    /\ [][(closed /\ ~started /\ lastRet' # lastRet
              /\ lastRet'.op = "Start") => lastRet'.ret = ErrClosed]_vars
    /\ [][(closed /\ ~started) => (closed' /\ ~started')]_vars

\* Close has returned nil on an instance that was never started, having
\* closed a registered channel, and a Start made afterwards has returned
\* ErrClosed.
C37_Witness ==
    /\ closed /\ ~started /\ cancelled
    /\ closeRets = {Nil}
    /\ nextChan > 0 /\ subscribers = <<>>
    /\ \A ch \in 1..nextChan : chanClosed[ch]
    /\ lastRet = [op |-> "Start", ret |-> ErrClosed, val |-> NoEvent]

\* ------------------------------------------------------------------- C38
\* The queries.
QueryMethods == {"Events", "Err", "Size"}

\* A step of a command method or of a query: the checks of sendCommand,
\* its write, or a query, which is one step.
CommandOrQueryStep ==
    \/ \E c \in Callers, t \in CommandTypes :
          \/ pc[c] = "idle" /\ pc'[c] = "write_" \o t
          \/ pc[c] = "write_" \o t /\ pc'[c] = "idle"
    \/ /\ callsLeft' = callsLeft - 1 /\ pc' = pc
       /\ lastRet'.op \in CommandMethods \cup QueryMethods

\* C38: a step of Input, SendKeys, Resize or TakeSnapshot, or of Events,
\* Err or Size, leaves vt.started, vt.closed, the registry and its
\* channels, vt.err and vt.ctx as they were, whether the call succeeds or
\* fails; and Err returns vt.err.
C38_CommandsAndQueriesFrame ==
    [][CommandOrQueryStep =>
        /\ UNCHANGED <<started, closed, subscribers, chanClosed, chanBuf>>
        /\ UNCHANGED <<err, cancelled>>
        /\ (lastRet' # lastRet /\ lastRet'.op = "Err") => lastRet'.ret = err
      ]_vars

\* A command has failed at its write on an instance whose child has
\* exited abnormally: the captured error, the registered subscriber and
\* the state Running are as the exit left them.
C38_Witness ==
    /\ State = "Running"
    /\ subscribers # <<>>
    /\ err # Nil /\ cancelled
    /\ lastRet.op \in CommandMethods /\ lastRet.ret = ErrWrite
    /\ written = <<>>

\* ------------------------------------------------------------------- C39
\* The place of an event in the order of sends on vt.events; events carry
\* the number of the line they were decoded from.
PrimaryIndex(e) ==
    IF \E i \in 1..Len(primaryHist) : primaryHist[i] = e
    THEN CHOOSE i \in 1..Len(primaryHist) : primaryHist[i] = e
    ELSE 0

\* WaitForSnapshot of caller c is about to return a Snapshot event.
WfsSucceeds(c) == pc[c] = "wfs_unsub" /\ wfsRes[c].ret = Nil

\* C39 as claimed: the Snapshot event a WaitForSnapshot returns was sent
\* on vt.events after the call registered its channel.
C39_PublishedAfterCallBegan ==
    \A c \in Callers :
        WfsSucceeds(c) => PrimaryIndex(wfsRes[c].val) > regAt[wfsCh[c]]

\* C39 as amended: the Snapshot event a WaitForSnapshot returns was sent
\* on the call's own channel, by a fan-out made while that channel was
\* registered; it is the event in the hand of readEvents when the channel
\* was registered or one sent on vt.events later, never an event whose
\* fan-out was over by then.
C39_FannedOutWhileRegistered ==
    /\ [](\A c \in Callers :
            WfsSucceeds(c) =>
                /\ wfsRes[c].val.type = "snapshot"
                /\ \E j \in 1..Len(delivered[wfsCh[c]]) :
                        delivered[wfsCh[c]][j] = wfsRes[c].val
                /\ PrimaryIndex(wfsRes[c].val) >= 1
                /\ PrimaryIndex(wfsRes[c].val) >= regAt[wfsCh[c]])
    /\ [][\A ch \in Chans :
            delivered'[ch] # delivered[ch] =>
                /\ ch \in Registered /\ decPc = "fanout"
                /\ delivered'[ch] = Append(delivered[ch], curEvent)
                /\ PrimaryIndex(curEvent) = Len(primaryHist)
                /\ regAt[ch] <= Len(primaryHist)]_vars

\* Two WaitForSnapshot calls are about to return the same Snapshot event,
\* the only one the child has written.
C39_Witness ==
    /\ \A c \in Callers : WfsSucceeds(c)
    /\ \E c, d \in Callers :
          c # d /\ wfsCh[c] # wfsCh[d] /\ wfsRes[c].val = wfsRes[d].val
    /\ Cardinality({i \in 1..Len(decoded) : decoded[i].type = "snapshot"}) = 1

\* ------------------------------------------------------------------- C40
\* A step in which Start runs on an instance that is not started.
FirstStartStep ==
    /\ ~started
    /\ callsLeft' = callsLeft - 1 /\ pc' = pc
    /\ lastRet'.op = "Start"

\* Start has created nothing: no child, no goroutine.
NothingCreated ==
    /\ spawned = 0 /\ proc = "none" /\ wg = 0
    /\ decPc = "idle" /\ exPc = "idle"

\* Nothing is left behind: no goroutine is running, and a child that was
\* spawned has exited and cmd.Wait has returned for it.
NothingRunning ==
    /\ wg = 0
    /\ decPc \in {"idle", "done"} /\ exPc \in {"idle", "done"}
    /\ proc # "running"
    /\ spawned = 1 => (proc = "exited" /\ exPc = "done" /\ stdoutClosed)

\* Start returns ErrClosed having created nothing.
StartLosesRace ==
    /\ lastRet'.ret = ErrClosed /\ closed
    /\ NothingCreated /\ NothingCreated' /\ ~started'

\* Start returns nil having launched the child and both goroutines, on an
\* instance that Close had not yet marked closed.
StartWinsRace ==
    /\ lastRet'.ret = Nil /\ ~closed
    /\ started' /\ spawned = 0 /\ spawned' = 1 /\ wg' = 2
    /\ decPc' = "scan" /\ exPc' = "wait"

\* Start fails at the pipes or at cmd.Start, having created nothing.
StartFailsToLaunch ==
    /\ lastRet'.ret = ErrSpawn /\ ~closed
    /\ NothingCreated /\ NothingCreated' /\ ~started'

\* C40 as claimed: a Start on an instance that is not started either
\* returns ErrClosed with nothing created or succeeds; once Close has
\* returned nothing is running and no child is unawaited; and at most one
\* child is ever spawned.
C40_TwoOutcomes ==
    /\ [][FirstStartStep => (StartLosesRace \/ StartWinsRace)]_vars
    /\ [](CloseCompleted => NothingRunning)
    /\ [](spawned <= 1)

\* C40 as amended: the same, with the third outcome that Start fails to
\* launch the child and returns that error with nothing created.
C40_ThreeOutcomes ==
    /\ [][FirstStartStep =>
            (StartLosesRace \/ StartWinsRace \/ StartFailsToLaunch)]_vars
    /\ [](CloseCompleted => NothingRunning)
    /\ [](CloseCompleted /\ ~started => NothingCreated)
    /\ [](spawned <= 1)
    /\ [][CloseCompleted =>
            UNCHANGED <<started, spawned, proc, wg, decPc, exPc>>]_vars

\* Start succeeded, Close has returned after waiting for both goroutines,
\* and the one child spawned has exited and was waited for.
C40_Witness ==
    /\ CloseCompleted /\ started
    /\ spawned = 1 /\ NothingRunning
    /\ decPc = "done" /\ exPc = "done"
    /\ lastRet.op = "Close"
    /\ callsLeft = MaxCallsLife - 2
====
